---- MODULE Spec2Model ----
(***************************************************************************)
(* Model of the LIBRO replication core: TestExecutor (differential         *)
(* execution and classification), TestRanker (select_and_rank) and         *)
(* LIBROPipeline.run_on_bug (per-bug candidate loop).                      *)
(***************************************************************************)
EXTENDS Integers, Sequences, FiniteSets, TLC

VARIABLES
    \* --- TestExecutor.classify_test / is_bug_reproducing on arbitrary records
    buggy_result,      \* dict passed as buggy_result
    fixed_result,      \* dict passed as fixed_result
    classification,    \* value returned by classify_test ("" before the call)
    is_brt,            \* value returned by is_bug_reproducing
    cpc,               \* "input" before the calls, "done" after
    \* --- TestRanker.select_and_rank on arbitrary inputs
    rk_fib_tests,      \* the fib_tests argument
    rk_description,    \* bug_report['description']
    rk_threshold,      \* self.agreement_threshold
    rk_ranking,        \* the returned list
    rk_pc,             \* "input" before the call, "done" after
    \* --- LIBROPipeline.run_on_bug on one bug
    pc,                \* position in run_on_bug
    idx,               \* the loop variable i of "for i, test_dict in enumerate(candidates)"
    candidates,        \* the list of test dicts (results["generated_tests"] is the same list)
    buggy_dir,         \* work_dir/<project>_<bug>_buggy: does it exist, injected files in it
    fixed_dir,         \* work_dir/<project>_<bug>_fixed
    injected_path,     \* index of the candidate whose file inject_test wrote last, -1 if none
    cur_buggy,         \* buggy_result of the running execute_on_both_versions
    cur_fixed,         \* fixed_result of the running execute_on_both_versions
    exec_result,       \* the dict returned by execute_on_both_versions
    injected_tests,    \* results["injected_tests"], as candidate indices
    fib_tests,         \* the list fib_tests, as references (indices) to the test dicts
    brt_tests,         \* results["brt_tests"], as references to the test dicts
    ranking,           \* results["ranking"]
    errors,            \* results["errors"]
    threshold,         \* test_ranker.agreement_threshold
    description,       \* bug_info['description']
    tool_log,          \* per candidate, what the checkout, compile and test commands did on each
                       \* revision (history of the build tool's behaviour)
    \* --- TestProcessor.find_host_class called from the candidate loop
    h_code,            \* the test_code argument
    h_files,           \* the checkout snapshot: relative path -> file content
    h_results,         \* per call: the returned value and the branch run_on_bug takes
    \* --- TestGenerator._extract_test_method
    e_output,          \* the raw LLM output
    e_prompt,          \* the prompt
    e_unit,            \* what _extract_test_method returned for e_output
    e_again,           \* what _extract_test_method returned for e_unit
    e_pc,              \* "raw", "extracted" or "again"
    \* --- TestProcessor.inject_test called from the candidate loop
    i_fs,              \* the files of the checkout: path -> content
    i_idx,             \* the index i of the next candidate
    i_log,             \* per call: its arguments, its result, the files before and after
    \* --- BatchProcessor.process_bugs
    b_bugs,            \* the bug ids of bug_reports, in order
    b_resume_from,     \* the resume_from argument
    b_file,            \* output_dir/progress.json
    b_results,         \* the dict results
    b_start_processing,
    b_i,               \* how many bugs the loop has taken from the list
    b_pc,              \* "start", "loop", "returned" or "raised"
    b_log,             \* per bug taken: what happened in its iteration
    b_restarts,        \* how many times process_bugs was started again
    b_history          \* per call of run_on_bug, over all starts: what was persisted

cvars == <<buggy_result, fixed_result, classification, is_brt, cpc>>
rvars == <<rk_fib_tests, rk_description, rk_threshold, rk_ranking, rk_pc>>

pvars == <<pc, idx, candidates, buggy_dir, fixed_dir, injected_path, cur_buggy,
           cur_fixed, exec_result, injected_tests, fib_tests, brt_tests, ranking,
           errors, threshold, description, tool_log>>

hvars == <<h_code, h_files, h_results>>
evars == <<e_output, e_prompt, e_unit, e_again, e_pc>>
ivars == <<i_fs, i_idx, i_log>>
bvars == <<b_bugs, b_resume_from, b_file, b_results, b_start_processing, b_i, b_pc, b_log,
          b_restarts, b_history>>

\* the variables outside each group
notC == <<rvars, pvars, hvars, evars, ivars, bvars>>
notR == <<cvars, pvars, hvars, evars, ivars, bvars>>
notP == <<cvars, rvars, hvars, evars, ivars, bvars>>
notH == <<cvars, rvars, pvars, evars, ivars, bvars>>
notE == <<cvars, rvars, pvars, hvars, ivars, bvars>>
notI == <<cvars, rvars, pvars, hvars, evars, bvars>>
notB == <<cvars, rvars, pvars, hvars, evars, ivars>>

vars == <<cvars, rvars, pvars, hvars, evars, ivars, bvars>>

(***************************************************************************)
(* Python dicts are functions over the keys they hold.                     *)
(***************************************************************************)
FlagKeys == {"compiled", "passed", "failed"}

\* dict.get(k, False); dict.get(k) yields None, which is falsy like False
Get(d, k) == IF k \in DOMAIN d THEN d[k] ELSE FALSE

\* every dict over a subset of the three flags (a missing key is possible:
\* execute_on_both_versions returns {'error': 'checkout_failed'} records)
FlagDicts == UNION {[K -> BOOLEAN] : K \in SUBSET FlagKeys}

\* TestExecutor.is_bug_reproducing
is_bug_reproducing(b, f) ==
    Get(b, "compiled") /\ Get(f, "compiled") /\ Get(b, "failed") /\ Get(f, "passed")

\* classify_test with the fixed-revision outcome left out of the BRT test
classify_test_ignoring_fixed(b, f) ==
    IF ~Get(b, "compiled") THEN "COMPILATION_ERROR_BUGGY"
    ELSE IF ~Get(f, "compiled") THEN "COMPILATION_ERROR_FIXED"
    ELSE IF Get(b, "failed") THEN "BRT"
    ELSE "PIB"

\* classify_test with the two compile checks in the opposite order
classify_test_fixed_first(b, f) ==
    IF ~Get(f, "compiled") THEN "COMPILATION_ERROR_FIXED"
    ELSE IF ~Get(b, "compiled") THEN "COMPILATION_ERROR_BUGGY"
    ELSE IF Get(b, "failed") /\ Get(f, "passed") THEN "BRT"
    ELSE IF Get(b, "failed") THEN "FIB"
    ELSE "PIB"

\* classify_test with the last elif testing the fixed outcome
classify_test_elif_fixed(b, f) ==
    IF ~Get(b, "compiled") THEN "COMPILATION_ERROR_BUGGY"
    ELSE IF ~Get(f, "compiled") THEN "COMPILATION_ERROR_FIXED"
    ELSE IF Get(b, "failed") /\ Get(f, "passed") THEN "BRT"
    ELSE IF Get(b, "failed") THEN "FIB"
    ELSE IF Get(f, "passed") THEN "PIB"
    ELSE "UNKNOWN"

\* TestExecutor.classify_test
classify_test(b, f) ==
    IF ~Get(b, "compiled") THEN "COMPILATION_ERROR_BUGGY"
    ELSE IF ~Get(f, "compiled") THEN "COMPILATION_ERROR_FIXED"
    ELSE LET buggy_failed == Get(b, "failed")
             fixed_passed == Get(f, "passed")
         IN IF buggy_failed /\ fixed_passed THEN "BRT"
            ELSE IF buggy_failed THEN "FIB"
            ELSE IF ~buggy_failed THEN "PIB"
            ELSE "UNKNOWN"



(***************************************************************************)
(* TestExecutor.execute_test.  The outcome of a subprocess.run call is     *)
(* "rc0"/"rc1" (it returned with that exit code), "timeout"                *)
(* (TimeoutExpired) or "oserror" (any other exception) for the compile     *)
(* command; for the test command a record with kind "returned", "timeout"  *)
(* or "oserror", and for "returned" what the output holds.                 *)
(***************************************************************************)
NoneMsg == <<>>
CompileMsg == <<"c">>
TimeoutMsg == <<"t">>
OsErrorMsg == <<"o">>

\* TestExecutor._is_test_passed
_is_test_passed(test_result) ==
    IF test_result.ok_in_stdout THEN TRUE
    ELSE IF test_result.returncode = 0 THEN TRUE
    ELSE IF test_result.indicator THEN FALSE
    ELSE test_result.returncode = 0

\* the "stdout" and "stderr" keys of the result as far as _is_test_passed
\* reads the output of the test command: "OK" in stdout, a failure
\* indicator in stdout + stderr
NoOutput == [ok_in_stdout |-> FALSE, indicator |-> FALSE]
OutputOf(test_result) ==
    [ok_in_stdout |-> test_result.ok_in_stdout, indicator |-> test_result.indicator]

\* the result dict of execute_test as initialised at its top
NewResult ==
    [compiled |-> FALSE, passed |-> FALSE, failed |-> FALSE,
     error_type |-> "None", error_message |-> NoneMsg, output |-> NoOutput]

\* the timeout handler marking the run as a failed test
OnTimeoutExpired_failed(result) ==
    [result EXCEPT !.failed = TRUE, !.error_type = "Timeout", !.error_message = TimeoutMsg]

\* execute_test, "except subprocess.TimeoutExpired", on the result built so far
OnTimeoutExpired(result) ==
    [result EXCEPT !.error_type = "Timeout", !.error_message = TimeoutMsg]

\* the test command is not reached when the compile command did not return 0
NotRun == [kind |-> "not_run"]

\* execute_test setting "compiled" before it looks at the compile exit code
execute_test_compiled_first(compile_result, test_result) ==
    CASE compile_result = "timeout" -> OnTimeoutExpired(NewResult)
      [] compile_result = "oserror" ->
            [NewResult EXCEPT !.error_type = "ExecutionError", !.error_message = OsErrorMsg]
      [] compile_result = "rc1" ->
            [NewResult EXCEPT !.compiled = TRUE, !.error_type = "CompilationError",
                              !.error_message = CompileMsg]
      [] compile_result = "rc0" ->
            LET compiled == [NewResult EXCEPT !.compiled = TRUE]
            IN  CASE test_result.kind = "timeout" -> OnTimeoutExpired(compiled)
                  [] test_result.kind = "oserror" ->
                        [compiled EXCEPT !.error_type = "ExecutionError",
                                         !.error_message = OsErrorMsg]
                  [] test_result.kind = "returned" ->
                        IF _is_test_passed(test_result)
                        THEN [compiled EXCEPT !.output = OutputOf(test_result),
                                              !.passed = TRUE]
                        ELSE [compiled EXCEPT !.output = OutputOf(test_result),
                                 !.failed = TRUE,
                                 !.error_type = test_result.failure.error_type,
                                 !.error_message = test_result.failure.error_message]

\* TestExecutor.execute_test
execute_test(compile_result, test_result) ==
    CASE compile_result = "timeout" -> OnTimeoutExpired(NewResult)
      [] compile_result = "oserror" ->
            [NewResult EXCEPT !.error_type = "ExecutionError", !.error_message = OsErrorMsg]
      [] compile_result = "rc1" ->
            [NewResult EXCEPT !.error_type = "CompilationError", !.error_message = CompileMsg]
      [] compile_result = "rc0" ->
            LET compiled == [NewResult EXCEPT !.compiled = TRUE]
            IN  CASE test_result.kind = "timeout" -> OnTimeoutExpired(compiled)
                  [] test_result.kind = "oserror" ->
                        [compiled EXCEPT !.error_type = "ExecutionError",
                                         !.error_message = OsErrorMsg]
                  [] test_result.kind = "returned" ->
                        IF _is_test_passed(test_result)
                        THEN [compiled EXCEPT !.output = OutputOf(test_result),
                                              !.passed = TRUE]
                        ELSE [compiled EXCEPT !.output = OutputOf(test_result),
                                 !.failed = TRUE,
                                 !.error_type = test_result.failure.error_type,
                                 !.error_message = test_result.failure.error_message]

\* the dict execute_on_both_versions returns when a checkout fails
CheckoutFailed ==
    [buggy_result |-> [error |-> "checkout_failed"],
     fixed_result |-> [error |-> "checkout_failed"],
     is_brt |-> FALSE]

(***************************************************************************)
(* Strings are sequences of one-character strings, so that the regular     *)
(* expressions of TestRanker act on them character by character.           *)
(***************************************************************************)
IsSpace(c) == c \in {" ", "\n", "\t"}
IsDigit(c) == c \in {"0", "1", "2", "3", "4", "5", "6", "7", "8", "9"}
IsHex(c) == IsDigit(c) \/ c \in {"a", "b", "c", "d", "e", "f", "A", "B", "C", "D", "E", "F"}
LowerCase == << "a", "b", "c", "d", "e", "f", "g", "h", "i", "j", "k", "l", "m", "n", "o",
               "p", "q", "r", "s", "t", "u", "v", "w", "x", "y", "z" >>
UpperCase == << "A", "B", "C", "D", "E", "F", "G", "H", "I", "J", "K", "L", "M", "N", "O",
               "P", "Q", "R", "S", "T", "U", "V", "W", "X", "Y", "Z" >>
IsLower(c) == \E i \in 1..Len(LowerCase) : LowerCase[i] = c
IsUpper(c) == \E i \in 1..Len(UpperCase) : UpperCase[i] = c
IsLetter(c) == IsLower(c) \/ IsUpper(c)

\* \w of the regular expressions
IsWord(c) == IsLetter(c) \/ IsDigit(c) \/ c = "_"

\* str.lower() of one character and of a string
LowerChar(c) ==
    IF IsUpper(c) THEN LowerCase[CHOOSE i \in 1..Len(UpperCase) : UpperCase[i] = c] ELSE c
Lower(s) == [i \in 1..Len(s) |-> LowerChar(s[i])]

\* re.sub(r'\s+', '', s)
StripWhitespace(s) == SelectSeq(s, LAMBDA c : ~IsSpace(c))

\* re.sub(r'\d+', '', s)
StripDigits(s) == SelectSeq(s, LAMBDA c : ~IsDigit(c))

\* index of the first character at or after i that fails P, Len(s)+1 if none
RECURSIVE HexRunEnd(_, _)
HexRunEnd(s, i) == IF i > Len(s) \/ ~IsHex(s[i]) THEN i ELSE HexRunEnd(s, i + 1)

\* re.sub(r'0x[0-9a-fA-F]+', '', s)
RECURSIVE StripHexFrom(_, _)
StripHexFrom(s, i) ==
    IF i > Len(s) THEN <<>>
    ELSE IF s[i] = "0" /\ i + 2 <= Len(s) /\ s[i + 1] = "x" /\ IsHex(s[i + 2])
         THEN StripHexFrom(s, HexRunEnd(s, i + 2))
         ELSE <<s[i]>> \o StripHexFrom(s, i + 1)
StripHex(s) == StripHexFrom(s, 1)

\* index of the next "\n" at or after i, Len(s)+1 if none ('.' stops at "\n")
RECURSIVE LineEnd(_, _)
LineEnd(s, i) == IF i > Len(s) \/ s[i] = "\n" THEN i ELSE LineEnd(s, i + 1)

\* re.sub(r'//.*', '', s)
RECURSIVE StripCommentsFrom(_, _)
StripCommentsFrom(s, i) ==
    IF i > Len(s) THEN <<>>
    ELSE IF s[i] = "/" /\ i + 1 <= Len(s) /\ s[i + 1] = "/"
         THEN StripCommentsFrom(s, LineEnd(s, i + 2))
         ELSE <<s[i]>> \o StripCommentsFrom(s, i + 1)
StripComments(s) == StripCommentsFrom(s, 1)

\* s[:n]
Prefix(s, n) == SubSeq(s, 1, IF Len(s) < n THEN Len(s) ELSE n)

\* the character classes of the two splitting rules: \w and non-whitespace
InClass(class, c) == IF class = "word" THEN IsWord(c) ELSE ~IsSpace(c)

\* the end of the maximal run of class characters that starts at i
RunEnd(s, i, class) ==
    LET ends == {j \in i..Len(s) : \A k \in i..j : InClass(class, s[k])}
    IN  IF ends = {} THEN i - 1 ELSE CHOOSE j \in ends : \A k \in ends : k <= j

\* the positions where a maximal run of class characters starts
RunStarts(s, class) ==
    {i \in 1..Len(s) : InClass(class, s[i]) /\ (i = 1 \/ ~InClass(class, s[i - 1]))}

\* set(re.findall(r'\w+', s))
Words(s) == {SubSeq(s, i, RunEnd(s, i, "word")) : i \in RunStarts(s, "word")}

\* len(s.split()): the number of maximal runs of non-whitespace characters
SplitCount(s) == Cardinality(RunStarts(s, "nonspace"))

(***************************************************************************)
(* TestRanker.  A test is a dict with the keys test_id, test_code,         *)
(* error_type and error_message; a test id "test_<i>" is <<"test_", i>>    *)
(* and a cluster key "<type>::<msg>" is <<type, "::", msg>>.               *)
(***************************************************************************)
MsgPrefixLen == 100
MissingTokenCount == 999

TestId(i) == <<"test_", i>>

\* the cluster key built in the loop of _cluster_by_failure_output
ClusterKey(t) ==
    <<t.error_type, "::",
      Prefix(StripHex(StripDigits(t.error_message)), MsgPrefixLen)>>

\* the keys of the clusters dict, in insertion order
RECURSIVE ClusterKeys(_)
ClusterKeys(tests) ==
    IF tests = <<>> THEN <<>>
    ELSE LET front == ClusterKeys(SubSeq(tests, 1, Len(tests) - 1))
             k == ClusterKey(tests[Len(tests)])
         IN  IF \E i \in 1..Len(front) : front[i] = k THEN front
             ELSE Append(front, k)

\* TestRanker._cluster_by_failure_output: the items of the dict, in order
_cluster_by_failure_output(tests) ==
    LET keys == ClusterKeys(tests)
    IN  [i \in 1..Len(keys) |->
           [key |-> keys[i],
            tests |-> SelectSeq(tests, LAMBDA t : ClusterKey(t) = keys[i])]]

\* the normalized code of _remove_syntactic_duplicates
NormalizedCode(code) == StripComments(StripWhitespace(code))

\* TestRanker._remove_syntactic_duplicates
RECURSIVE _remove_syntactic_duplicates(_)
_remove_syntactic_duplicates(tests) ==
    IF tests = <<>> THEN <<>>
    ELSE LET front == SubSeq(tests, 1, Len(tests) - 1)
             unique == _remove_syntactic_duplicates(front)
             t == tests[Len(tests)]
         IN  IF \E i \in 1..Len(front) :
                    NormalizedCode(front[i].test_code) = NormalizedCode(t.test_code)
             THEN unique
             ELSE Append(unique, t)

\* TestRanker._match_with_report: a dict keyed by test_id
_match_with_report(tests, report_text) ==
    LET report_keywords == Words(Lower(report_text))
        ids == {tests[i].test_id : i \in 1..Len(tests)}
        \* a later test with the same id overwrites an earlier one
        last(id) == CHOOSE i \in 1..Len(tests) :
                        /\ tests[i].test_id = id
                        /\ \A j \in 1..Len(tests) : tests[j].test_id = id => j <= i
    IN  [id \in ids |->
           Cardinality(report_keywords \cap
               Words(Lower(tests[last(id)].test_code \o tests[last(id)].error_message)))]

\* the token_counts dict of select_and_rank
TokenCounts(unique_tests) ==
    LET ids == {unique_tests[i].test_id : i \in 1..Len(unique_tests)}
        last(id) == CHOOSE i \in 1..Len(unique_tests) :
                        /\ unique_tests[i].test_id = id
                        /\ \A j \in 1..Len(unique_tests) :
                               unique_tests[j].test_id = id => j <= i
    IN  [id \in ids |-> SplitCount(unique_tests[last(id)].test_code)]

\* dict.get(k, default)
DictGet(d, k, default) == IF k \in DOMAIN d THEN d[k] ELSE default

\* Python's order on tuples of integers of the same length
RECURSIVE TupleLess(_, _)
TupleLess(a, b) ==
    /\ a # <<>>
    /\ \/ a[1] < b[1]
       \/ a[1] = b[1] /\ TupleLess(Tail(a), Tail(b))

\* sorted(items, key=..., reverse=True) over items [k |-> key, v |-> value]:
\* descending by key, items with equal keys keep their order
RECURSIVE SortedReverse(_)
SortedReverse(items) ==
    IF items = <<>> THEN <<>>
    ELSE LET rest == SortedReverse(SubSeq(items, 1, Len(items) - 1))
             x == items[Len(items)]
             n == Cardinality({i \in 1..Len(rest) : ~TupleLess(rest[i].k, x.k)})
         IN  SubSeq(rest, 1, n) \o <<x>> \o SubSeq(rest, n + 1, Len(rest))

Values(items) == [i \in 1..Len(items) |-> items[i].v]

Min(S) == CHOOSE x \in S : \A y \in S : x <= y
Max(S) == CHOOSE x \in S : \A y \in S : y <= x

\* the "Sort clusters by ranking heuristics" step of select_and_rank
SortClusters(clusters, report_matches, token_counts) ==
    Values(SortedReverse(
        [i \in 1..Len(clusters) |->
           [k |-> << DictGet(report_matches, clusters[i].key, 0),
                     Len(clusters[i].tests),
                     0 - Min({DictGet(token_counts, clusters[i].tests[j].test_id,
                                      MissingTokenCount) :
                              j \in 1..Len(clusters[i].tests)}) >>,
            v |-> clusters[i]]]))

\* the "Sort tests within clusters" step of select_and_rank
SortWithinCluster(cluster, report_matches, token_counts) ==
    [key |-> cluster.key,
     tests |-> Values(SortedReverse(
        [j \in 1..Len(cluster.tests) |->
           [k |-> << DictGet(report_matches, cluster.key, 0),
                     0 - DictGet(token_counts, cluster.tests[j].test_id,
                                 MissingTokenCount) >>,
            v |-> cluster.tests[j]]]))]

\* the "Round-robin selection" loops of select_and_rank, from round i, cluster c
RECURSIVE RoundRobinFrom(_, _, _, _)
RoundRobinFrom(sorted_clusters, max_size, i, c) ==
    IF i > max_size THEN <<>>
    ELSE IF c > Len(sorted_clusters)
         THEN RoundRobinFrom(sorted_clusters, max_size, i + 1, 1)
         ELSE (IF i <= Len(sorted_clusters[c].tests)
               THEN <<sorted_clusters[c].tests[i]>> ELSE <<>>)
              \o RoundRobinFrom(sorted_clusters, max_size, i, c + 1)

\* the round-robin loops with one round too few
RoundRobin_short(sorted_clusters) ==
    RoundRobinFrom(sorted_clusters,
                   Max({Len(sorted_clusters[c].tests) : c \in 1..Len(sorted_clusters)}) - 1,
                   1, 1)

RoundRobin(sorted_clusters) ==
    RoundRobinFrom(sorted_clusters,
                   Max({Len(sorted_clusters[c].tests) : c \in 1..Len(sorted_clusters)}),
                   1, 1)

\* the threshold test with a strict comparison
BelowThreshold_strict(max_cluster_size, agreement_threshold) ==
    max_cluster_size < agreement_threshold

\* select_and_rank, "Check agreement threshold": the test that suppresses the ranking
BelowThreshold(max_cluster_size, agreement_threshold) ==
    max_cluster_size <= agreement_threshold

\* TestRanker.select_and_rank
select_and_rank(tests, report_text, agreement_threshold) ==
    LET clusters == _cluster_by_failure_output(tests)
        max_cluster_size ==
            IF clusters # <<>>
            THEN Max({Len(clusters[c].tests) : c \in 1..Len(clusters)}) ELSE 0
    IN  IF BelowThreshold(max_cluster_size, agreement_threshold) THEN <<>>
        ELSE LET unique_tests == _remove_syntactic_duplicates(tests)
                 report_matches == _match_with_report(unique_tests, report_text)
                 token_counts == TokenCounts(unique_tests)
                 sorted_clusters == SortClusters(clusters, report_matches, token_counts)
                 sorted_tests ==
                     [c \in 1..Len(sorted_clusters) |->
                        SortWithinCluster(sorted_clusters[c], report_matches, token_counts)]
             IN  RoundRobin(sorted_tests)

(***************************************************************************)
(* Specification of the classifier: any pair of dicts, then the two calls. *)
(***************************************************************************)
CIdle ==
    /\ buggy_result = <<>>
    /\ fixed_result = <<>>
    /\ classification = ""
    /\ is_brt = FALSE
    /\ cpc = "idle"

RIdle ==
    /\ rk_fib_tests = <<>>
    /\ rk_description = <<>>
    /\ rk_threshold = 1
    /\ rk_ranking = <<>>
    /\ rk_pc = "idle"

NoDir == [exists |-> FALSE, injected |-> {}]

PIdle ==
    /\ pc = "idle"
    /\ idx = 0
    /\ candidates = <<>>
    /\ buggy_dir = NoDir
    /\ fixed_dir = NoDir
    /\ injected_path = -1
    /\ cur_buggy = <<>>
    /\ cur_fixed = <<>>
    /\ exec_result = <<>>
    /\ injected_tests = <<>>
    /\ fib_tests = <<>>
    /\ brt_tests = <<>>
    /\ ranking = <<>>
    /\ errors = <<>>
    /\ threshold = 1
    /\ description = <<>>
    /\ tool_log = <<>>

HIdle ==
    /\ h_code = <<>>
    /\ h_files = <<>>
    /\ h_results = <<>>

EIdle ==
    /\ e_output = <<>>
    /\ e_prompt = <<>>
    /\ e_unit = <<>>
    /\ e_again = <<>>
    /\ e_pc = "idle"

IIdle ==
    /\ i_fs = <<>>
    /\ i_idx = 0
    /\ i_log = <<>>

NoFile == [exists |-> FALSE, corrupt |-> FALSE, results |-> <<>>]

BIdle ==
    /\ b_bugs = <<>>
    /\ b_resume_from = <<>>
    /\ b_file = NoFile
    /\ b_results = <<>>
    /\ b_start_processing = FALSE
    /\ b_i = 0
    /\ b_pc = "idle"
    /\ b_log = <<>>
    /\ b_restarts = 0
    /\ b_history = <<>>

ClassifyInit ==
    /\ RIdle
    /\ PIdle
    /\ HIdle
    /\ EIdle
    /\ IIdle
    /\ BIdle
    /\ buggy_result \in FlagDicts
    /\ fixed_result \in FlagDicts
    /\ classification = ""
    /\ is_brt = FALSE
    /\ cpc = "input"

Classify ==
    /\ cpc = "input"
    /\ classification' = classify_test(buggy_result, fixed_result)
    /\ is_brt' = is_bug_reproducing(buggy_result, fixed_result)
    /\ cpc' = "done"
    /\ UNCHANGED <<buggy_result, fixed_result, notC>>

ClassifyNext == Classify

SpecClassify == ClassifyInit /\ [][ClassifyNext]_vars

(***************************************************************************)
(* Specification of execution: execute_on_both_versions after its two      *)
(* checkouts, with any outcome of the compile and test commands, and the   *)
(* classification of the two records.                                      *)
(***************************************************************************)
\* every outcome of the test command
AllTestResults ==
    { [kind |-> "timeout"], [kind |-> "oserror"] }
    \cup { [kind |-> "returned", ok_in_stdout |-> ok, returncode |-> rc, indicator |-> ind,
            failure |-> [error_type |-> "AssertionError", error_message |-> <<"e">>]] :
            ok \in BOOLEAN, rc \in {0, 1}, ind \in BOOLEAN }

ExecuteInit ==
    /\ RIdle
    /\ PIdle
    /\ HIdle
    /\ EIdle
    /\ IIdle
    /\ BIdle
    /\ buggy_result = <<>>
    /\ fixed_result = <<>>
    /\ classification = ""
    /\ is_brt = FALSE
    /\ cpc = "execute_buggy"

\* execute_on_both_versions, "Execute on buggy version"
ExecuteOnBuggy ==
    /\ cpc = "execute_buggy"
    /\ \E c \in {"rc0", "rc1", "timeout", "oserror"} :
         \E t \in IF c = "rc0" THEN AllTestResults ELSE {NotRun} :
            buggy_result' = execute_test(c, t)
    /\ cpc' = "execute_fixed"
    /\ UNCHANGED <<fixed_result, classification, is_brt, notC>>

\* execute_on_both_versions, "Execute on fixed version", and the
\* classification run_on_bug asks for
ExecuteOnFixed ==
    /\ cpc = "execute_fixed"
    /\ \E c \in {"rc0", "rc1", "timeout", "oserror"} :
         \E t \in IF c = "rc0" THEN AllTestResults ELSE {NotRun} :
            LET fixed == execute_test(c, t)
            IN  /\ fixed_result' = fixed
                /\ is_brt' = is_bug_reproducing(buggy_result, fixed)
                /\ classification' = classify_test(buggy_result, fixed)
    /\ cpc' = "done"
    /\ UNCHANGED <<buggy_result, notC>>

ExecuteNext == ExecuteOnBuggy \/ ExecuteOnFixed

SpecExecute == ExecuteInit /\ [][ExecuteNext]_vars

(***************************************************************************)
(* Specification of the ranker: any list of failed tests, any report and   *)
(* threshold of the bounded sets, then one call of select_and_rank.        *)
(***************************************************************************)
MaxTests == 3
MaxThreshold == 2

\* test bodies: "a b" and "ab" are equal once whitespace is removed, "a" and
\* "a//b" are equal once the comment is removed as well, "b" differs from all
Codes == { <<"a", " ", "b">>, <<"a", "b">>, <<"a">>, <<"a", "/", "/", "b">>, <<"b">> }

\* failure signatures: the first two share a cluster key (digits are dropped)
Failures == { [error_type |-> "AssertionError", error_message |-> <<"e">>],
              [error_type |-> "AssertionError", error_message |-> <<"e", "1">>],
              [error_type |-> "NullPointerException", error_message |-> <<"e">>] }

Descriptions == { <<"a">>, <<"A", "B", " ", "e">> }

MkTest(i, code, failure) ==
    [test_id |-> TestId(i), test_code |-> code,
     error_type |-> failure.error_type, error_message |-> failure.error_message]

RankInit ==
    /\ CIdle
    /\ PIdle
    /\ HIdle
    /\ EIdle
    /\ IIdle
    /\ BIdle
    /\ \E n \in 0..MaxTests : \E cs \in [1..n -> Codes], fs \in [1..n -> Failures] :
           rk_fib_tests = [i \in 1..n |-> MkTest(i - 1, cs[i], fs[i])]
    /\ rk_description \in Descriptions
    /\ rk_threshold \in 1..MaxThreshold
    /\ rk_ranking = <<>>
    /\ rk_pc = "input"

Rank ==
    /\ rk_pc = "input"
    /\ rk_ranking' = select_and_rank(rk_fib_tests, rk_description, rk_threshold)
    /\ rk_pc' = "done"
    /\ UNCHANGED <<rk_fib_tests, rk_description, rk_threshold, notR>>

RankNext == Rank

SpecRank == RankInit /\ [][RankNext]_vars

(***************************************************************************)
(* LIBROPipeline.run_on_bug on one bug: the inputs are the candidates the  *)
(* generator returns and the outcomes of the external commands.            *)
(***************************************************************************)
MaxCandidates == 2

PipelineCodes == { <<"a", " ", "b">>, <<"a", "b">> }

CandidateLists ==
    UNION { { [i \in 1..n |-> [test_code |-> cs[i]]] : cs \in [1..n -> PipelineCodes] } :
            n \in 0..MaxCandidates }

CommandResults == {"rc0", "rc1", "timeout", "oserror"}

AssertionFailure == [error_type |-> "AssertionError", error_message |-> <<"e">>]

\* the outcomes of the test command: a timeout, a passing run, a failing run
TestResults ==
    { [kind |-> "timeout"],
      [kind |-> "returned", ok_in_stdout |-> TRUE, returncode |-> 0, indicator |-> FALSE,
       failure |-> AssertionFailure],
      [kind |-> "returned", ok_in_stdout |-> FALSE, returncode |-> 1, indicator |-> TRUE,
       failure |-> AssertionFailure] }

\* the outcomes the test command can have after compile outcome c
TestResultsAfter(c) == IF c = "rc0" THEN TestResults ELSE {NotRun}

NoRuns == [buggy |-> <<>>, fixed |-> <<>>, checkouts |-> <<>>]

\* d[k] = v on a dict
Put(d, k, v) == [x \in DOMAIN d \cup {k} |-> IF x = k THEN v ELSE d[x]]

\* the test dicts a list of references stands for
Deref(refs) == [k \in 1..Len(refs) |-> candidates[refs[k]]]

PipelineInit ==
    /\ CIdle
    /\ RIdle
    /\ HIdle
    /\ EIdle
    /\ IIdle
    /\ BIdle
    /\ pc = "start"
    /\ idx = 0
    /\ candidates = <<>>
    /\ buggy_dir = NoDir
    /\ fixed_dir = NoDir
    /\ injected_path = -1
    /\ cur_buggy = <<>>
    /\ cur_fixed = <<>>
    /\ exec_result = <<>>
    /\ injected_tests = <<>>
    /\ fib_tests = <<>>
    /\ brt_tests = <<>>
    /\ ranking = <<>>
    /\ errors = <<>>
    /\ threshold \in 1..MaxThreshold
    /\ description \in {CHOOSE d \in Descriptions : TRUE}
    /\ tool_log = <<>>

\* run_on_bug, steps 1 and 2: the prompt and the candidates
GenerateTests ==
    /\ pc = "start"
    /\ \/ \E cands \in CandidateLists :
            /\ candidates' = cands
            /\ tool_log' = [n \in 1..Len(cands) |-> NoRuns]
            /\ pc' = IF cands = <<>> THEN "done" ELSE "checkout"
            /\ UNCHANGED errors
       \/ \* construct_prompt or generate_tests raises: the outer except
          /\ errors' = Append(errors, "exception")
          /\ pc' = "done"
          /\ UNCHANGED <<candidates, tool_log>>
    /\ UNCHANGED <<idx, buggy_dir, fixed_dir, injected_path, cur_buggy, cur_fixed,
                   exec_result, injected_tests, fib_tests, brt_tests, ranking,
                   threshold, description, notP>>

\* run_on_bug, "Checkout buggy version for processing" (_checkout_bug)
CheckoutBug ==
    /\ pc = "checkout"
    /\ \E r \in CommandResults :
         CASE r = "rc0" ->
                /\ buggy_dir' = [exists |-> TRUE, injected |-> {}]
                /\ pc' = "loop"
                /\ UNCHANGED errors
           [] r = "rc1" ->
                /\ \E e \in BOOLEAN : buggy_dir' = [exists |-> e, injected |-> {}]
                /\ errors' = Append(errors, "checkout_failed")
                /\ pc' = "done"
           [] OTHER ->
                \* subprocess.run raises: the outer except appends str(e)
                /\ \E e \in BOOLEAN : buggy_dir' = [exists |-> e, injected |-> {}]
                /\ errors' = Append(errors, r)
                /\ pc' = "done"
    /\ UNCHANGED <<idx, candidates, fixed_dir, injected_path, cur_buggy, cur_fixed,
                   exec_result, injected_tests, fib_tests, brt_tests, ranking,
                   threshold, description, tool_log, notP>>

\* the "continue" of the candidate loop
Continue ==
    /\ idx' = idx + 1
    /\ pc' = "loop"

\* one iteration of the candidate loop up to the call of execute_on_both_versions:
\* find_host_class, inject_test, _extract_class_name and _extract_method_name
ProcessCandidate ==
    /\ pc = "loop"
    /\ idx < Len(candidates)
    /\ \E host_found, injected, named \in BOOLEAN :
         /\ host_found => buggy_dir.exists
         /\ IF ~host_found
            THEN Continue /\ UNCHANGED <<buggy_dir, injected_path, injected_tests>>
            ELSE IF ~injected
            THEN Continue /\ UNCHANGED <<buggy_dir, injected_path, injected_tests>>
            ELSE /\ buggy_dir' = [buggy_dir EXCEPT !.injected = @ \cup {idx}]
                 /\ injected_path' = idx
                 /\ injected_tests' = Append(injected_tests, idx)
                 /\ IF ~named THEN Continue
                    ELSE pc' = "checkout_buggy" /\ UNCHANGED idx
    /\ UNCHANGED <<candidates, fixed_dir, cur_buggy, cur_fixed, exec_result,
                   fib_tests, brt_tests, ranking, errors, threshold, description,
                   tool_log, notP>>

\* TestExecutor._checkout_version on directory dir with command outcome r
_checkout_version(dir, r) ==
    IF r = "rc0" THEN {[exists |-> TRUE, injected |-> {}]}
    ELSE {[exists |-> e, injected |-> {}] : e \in BOOLEAN}

\* execute_on_both_versions, "Checkout buggy version"
CheckoutBuggyVersion ==
    /\ pc = "checkout_buggy"
    /\ \E r \in CommandResults :
         /\ buggy_dir' \in _checkout_version(buggy_dir, r)
         /\ tool_log' = [tool_log EXCEPT ![idx + 1].checkouts =
                                           Append(@, IF r \in {"rc0", "rc1"} THEN r ELSE "raised")]
         /\ CASE r = "rc0" -> pc' = "checkout_fixed" /\ UNCHANGED <<idx, exec_result>>
              [] r = "rc1" -> /\ exec_result' = CheckoutFailed
                              /\ pc' = "store"
                              /\ UNCHANGED idx
              [] OTHER -> Continue /\ UNCHANGED exec_result
    /\ UNCHANGED <<candidates, fixed_dir, injected_path, cur_buggy, cur_fixed,
                   injected_tests, fib_tests, brt_tests, ranking, errors, threshold,
                   description, notP>>

\* execute_on_both_versions, "Checkout fixed version"
CheckoutFixedVersion ==
    /\ pc = "checkout_fixed"
    /\ \E r \in CommandResults :
         /\ fixed_dir' \in _checkout_version(fixed_dir, r)
         /\ tool_log' = [tool_log EXCEPT ![idx + 1].checkouts =
                                           Append(@, IF r \in {"rc0", "rc1"} THEN r ELSE "raised")]
         /\ CASE r = "rc0" -> pc' = "execute_buggy" /\ UNCHANGED <<idx, exec_result>>
              [] r = "rc1" -> /\ exec_result' = CheckoutFailed
                              /\ pc' = "store"
                              /\ UNCHANGED idx
              [] OTHER -> Continue /\ UNCHANGED exec_result
    /\ UNCHANGED <<candidates, buggy_dir, injected_path, cur_buggy, cur_fixed,
                   injected_tests, fib_tests, brt_tests, ranking, errors, threshold,
                   description, notP>>

\* execute_on_both_versions, "Execute on buggy version"
ExecuteBuggy ==
    /\ pc = "execute_buggy"
    /\ \E c \in CommandResults : \E t \in TestResultsAfter(c) :
         /\ cur_buggy' = execute_test(c, t)
         /\ tool_log' = [tool_log EXCEPT ![idx + 1].buggy = <<c, t.kind>>]
    /\ pc' = "execute_fixed"
    /\ UNCHANGED <<idx, candidates, buggy_dir, fixed_dir, injected_path, cur_fixed,
                   exec_result, injected_tests, fib_tests, brt_tests, ranking, errors,
                   threshold, description, notP>>

\* execute_on_both_versions, "Execute on fixed version" up to its return
ExecuteFixed ==
    /\ pc = "execute_fixed"
    /\ \E c \in CommandResults : \E t \in TestResultsAfter(c) :
         LET fixed == execute_test(c, t)
         IN  /\ cur_fixed' = fixed
             /\ tool_log' = [tool_log EXCEPT ![idx + 1].fixed = <<c, t.kind>>]
             /\ exec_result' = [buggy_result |-> cur_buggy,
                                fixed_result |-> fixed,
                                is_brt |-> is_bug_reproducing(cur_buggy, fixed)]
    /\ pc' = "store"
    /\ UNCHANGED <<idx, candidates, buggy_dir, fixed_dir, injected_path, cur_buggy,
                   injected_tests, fib_tests, brt_tests, ranking, errors,
                   threshold, description, notP>>

\* run_on_bug, "Store execution results" to the end of the iteration
StoreResult ==
    /\ pc = "store"
    /\ LET n == idx + 1
           d1 == Put(candidates[n], "execution", exec_result)
           d2 == Put(d1, "test_id", TestId(idx))
           d3 == Put(d2, "classification",
                     classify_test(exec_result.buggy_result, exec_result.fixed_result))
           is_fib == Get(exec_result.buggy_result, "failed")
           d5 == Put(Put(d3, "error_type", exec_result.buggy_result.error_type),
                     "error_message", exec_result.buggy_result.error_message)
       IN  /\ candidates' = [candidates EXCEPT ![n] = IF is_fib THEN d5 ELSE d3]
           /\ fib_tests' = IF is_fib THEN Append(fib_tests, n) ELSE fib_tests
           /\ brt_tests' = IF is_fib /\ exec_result.is_brt
                           THEN Append(brt_tests, n) ELSE brt_tests
    /\ Continue
    \* the locals of the finished call go out of scope
    /\ cur_buggy' = <<>>
    /\ cur_fixed' = <<>>
    /\ exec_result' = <<>>
    /\ UNCHANGED <<buggy_dir, fixed_dir, injected_path, injected_tests, ranking,
                   errors, threshold, description, tool_log, notP>>

\* run_on_bug, after the loop: "Rank and select" and the return
RankAndReturn ==
    /\ pc = "loop"
    /\ idx = Len(candidates)
    /\ ranking' = IF fib_tests # <<>>
                  THEN select_and_rank(Deref(fib_tests), description, threshold)
                  ELSE ranking
    /\ pc' = "done"
    /\ UNCHANGED <<idx, candidates, buggy_dir, fixed_dir, injected_path, cur_buggy,
                   cur_fixed, exec_result, injected_tests, fib_tests, brt_tests,
                   errors, threshold, description, tool_log, notP>>

Next ==
    \/ GenerateTests
    \/ CheckoutBug
    \/ ProcessCandidate
    \/ CheckoutBuggyVersion
    \/ CheckoutFixedVersion
    \/ ExecuteBuggy
    \/ ExecuteFixed
    \/ StoreResult
    \/ RankAndReturn

Spec == PipelineInit /\ [][Next]_vars

(***************************************************************************)
(* TestProcessor.find_host_class.  A checkout snapshot maps the paths      *)
(* (relative to project_path) of the files it holds to their content.      *)
(***************************************************************************)
java_keywords ==
    { <<"p", "u", "b", "l", "i", "c">>,
      <<"p", "r", "i", "v", "a", "t", "e">>,
      <<"p", "r", "o", "t", "e", "c", "t", "e", "d">>,
      <<"s", "t", "a", "t", "i", "c">>,
      <<"f", "i", "n", "a", "l">>,
      <<"v", "o", "i", "d">>,
      <<"c", "l", "a", "s", "s">>,
      <<"i", "n", "t", "e", "r", "f", "a", "c", "e">>,
      <<"e", "x", "t", "e", "n", "d", "s">>,
      <<"i", "m", "p", "l", "e", "m", "e", "n", "t", "s">>,
      <<"r", "e", "t", "u", "r", "n">>,
      <<"i", "f">>,
      <<"e", "l", "s", "e">>,
      <<"f", "o", "r">>,
      <<"w", "h", "i", "l", "e">>,
      <<"d", "o">>,
      <<"s", "w", "i", "t", "c", "h">>,
      <<"c", "a", "s", "e">>,
      <<"b", "r", "e", "a", "k">>,
      <<"c", "o", "n", "t", "i", "n", "u", "e">>,
      <<"n", "e", "w">>,
      <<"t", "h", "i", "s">>,
      <<"s", "u", "p", "e", "r">>,
      <<"n", "u", "l", "l">>,
      <<"t", "r", "u", "e">>,
      <<"f", "a", "l", "s", "e">>,
      <<"t", "r", "y">>,
      <<"c", "a", "t", "c", "h">>,
      <<"f", "i", "n", "a", "l", "l", "y">>,
      <<"t", "h", "r", "o", "w">>,
      <<"t", "h", "r", "o", "w", "s">> }

\* the matches of re.findall(r'\b[a-zA-Z_]\w*\b', code) from position i on:
\* the maximal runs of word characters that do not start with a digit
RECURSIVE IdentifiersFrom(_, _)
IdentifiersFrom(code, i) ==
    IF i > Len(code) THEN <<>>
    ELSE IF IsWord(code[i])
         THEN LET e == RunEnd(code, i, "word")
              IN  (IF IsDigit(code[i]) THEN <<>> ELSE <<SubSeq(code, i, e)>>)
                  \o IdentifiersFrom(code, e + 1)
         ELSE IdentifiersFrom(code, i + 1)

\* TestProcessor._tokenize: a list, a token occurs as often as in the code
_tokenize(code) ==
    SelectSeq(IdentifiersFrom(code, 1), LAMBDA t : Lower(t) \notin java_keywords)

\* x in seq, for a list seq
InSeq(x, seq) == \E k \in 1..Len(seq) : seq[k] = x

\* set(tokens)
SetOf(seq) == {seq[i] : i \in 1..Len(seq)}

StartsWith(s, prefix) ==
    Len(prefix) <= Len(s) /\ SubSeq(s, 1, Len(prefix)) = prefix
EndsWith(s, suffix) ==
    Len(suffix) <= Len(s) /\ SubSeq(s, Len(s) - Len(suffix) + 1, Len(s)) = suffix

\* Path.name: the part after the last "/"
FileName(path) ==
    LET slashes == {i \in 1..Len(path) : path[i] = "/"}
    IN  IF slashes = {} THEN path ELSE SubSeq(path, Max(slashes) + 1, Len(path))

\* the test_dirs of _find_test_files, relative to project_path
test_dirs ==
    << <<"s", "r", "c", "/", "t", "e", "s", "t", "/", "j", "a", "v", "a">>,
       <<"t", "e", "s", "t">>,
       <<"t", "e", "s", "t", "s">>,
       <<"s", "r", "c", "/", "t", "e", "s", "t">> >>

\* the two rglob patterns '*Test.java' and 'Test*.java' on a file name
IsTestFileName(name) ==
    \/ EndsWith(name, <<"T", "e", "s", "t", ".", "j", "a", "v", "a">>)
    \/ StartsWith(name, <<"T", "e", "s", "t">>) /\ EndsWith(name, <<".", "j", "a", "v", "a">>) /\ Len(name) >= 9

\* TestProcessor._find_test_files: the paths found, as a set (list(set(...)))
_find_test_files(files) ==
    {path \in DOMAIN files :
        /\ \E d \in 1..Len(test_dirs) : StartsWith(path, test_dirs[d] \o <<"/">>)
        /\ IsTestFileName(FileName(path))}

\* the content of a file that cannot be opened
Unreadable == <<"unreadable">>

\* the value None
None == <<"None">>

\* a / b < c / d for scores <<numerator, denominator>>
ScoreLess(a, b) == a[1] * b[2] < b[1] * a[2]

\* find_host_class, "score = len(intersection) / len(test_tokens)"
Score(test_tokens, class_tokens) ==
    <<Cardinality(SetOf(test_tokens) \cap SetOf(class_tokens)), Len(test_tokens)>>

\* the loop of find_host_class over the first k files of test_files: the
\* pair best_match, best_score it has reached
RECURSIVE BestAfter(_, _, _, _)
BestAfter(test_tokens, test_files, files, k) ==
    IF k = 0 THEN [best_match |-> None, best_score |-> <<0, 1>>]
    ELSE LET best == BestAfter(test_tokens, test_files, files, k - 1)
             class_content == files[test_files[k]]
             class_tokens == IF class_content = Unreadable THEN <<>>
                             ELSE _tokenize(class_content)
             score == Score(test_tokens, class_tokens)
         IN  IF class_content = Unreadable \/ class_tokens = <<>> THEN best
             ELSE IF ScoreLess(best.best_score, score)
                  THEN [best_match |-> test_files[k], best_score |-> score]
                  ELSE best

\* find_host_class without its final "if best_match:" test
find_host_class_unguarded(test_code, test_files, files) ==
    LET test_tokens == _tokenize(test_code)
    IN  IF test_tokens = <<>> THEN None
        ELSE IF test_files = <<>> THEN None
        ELSE LET best == BestAfter(test_tokens, test_files, files, Len(test_files))
             IN  <<best.best_match, best.best_score>>

\* TestProcessor.find_host_class; test_files is the list _find_test_files
\* returned; the result is None or the pair <<host path, score>>
find_host_class(test_code, test_files, files) ==
    LET test_tokens == _tokenize(test_code)
    IN  IF test_tokens = <<>> THEN None
        ELSE IF test_files = <<>> THEN None
        ELSE LET best == BestAfter(test_tokens, test_files, files, Len(test_files))
             IN  IF best.best_match # None
                 THEN <<best.best_match, best.best_score>>
                 ELSE None

\* run_on_bug, "if not host_result: continue"
HostBranch(host_result) == IF host_result = None THEN "continue" ELSE "inject_test"

\* the orders in which a set of paths can be enumerated
Orderings(paths) ==
    {order \in [1..Cardinality(paths) -> paths] :
        \A i, j \in 1..Cardinality(paths) : order[i] = order[j] => i = j}

(***************************************************************************)
(* Specification of host selection: any candidate and snapshot of the      *)
(* bounded sets, then calls of find_host_class on that same snapshot,      *)
(* each with the enumeration order the set of test files happens to have.  *)
(***************************************************************************)
MaxRuns == 2

HostCodes == { <<"x">>, <<"x", " ", "x">>, <<"x", " ", "y">>, <<"i", "f">>, <<"z", " ", "1", "a">> }

SnapshotPaths ==
    { <<"t", "e", "s", "t", "/", "A", "T", "e", "s", "t", ".", "j", "a", "v", "a">>,
      <<"t", "e", "s", "t", "/", "B", "T", "e", "s", "t", ".", "j", "a", "v", "a">>,
      <<"s", "r", "c", "/", "t", "e", "s", "t", "/", "T", "e", "s", "t", "A", "B", ".", "j", "a", "v", "a">>,
      <<"t", "e", "s", "t", "/", "A", ".", "j", "a", "v", "a">>,
      <<"s", "r", "c", "/", "A", "T", "e", "s", "t", ".", "j", "a", "v", "a">> }

HostContents == { <<"x">>, <<"p", "u", "b", "l", "i", "c", " ", "X", " ", "y">>, <<"i", "f">>, Unreadable }

Snapshots == UNION { [paths -> HostContents] : paths \in SUBSET SnapshotPaths }

HostInit ==
    /\ CIdle
    /\ RIdle
    /\ PIdle
    /\ EIdle
    /\ IIdle
    /\ BIdle
    /\ h_code \in HostCodes
    /\ h_files \in Snapshots
    /\ h_results = <<>>

FindHostClass ==
    /\ Len(h_results) < MaxRuns
    /\ \E test_files \in Orderings(_find_test_files(h_files)) :
         LET host_result == find_host_class(h_code, test_files, h_files)
         IN  h_results' = Append(h_results, [host_result |-> host_result,
                                             branch |-> HostBranch(host_result)])
    /\ UNCHANGED <<h_code, h_files, notH>>

HostNext == FindHostClass

SpecHost == HostInit /\ [][HostNext]_vars

(***************************************************************************)
(* TestGenerator._extract_test_method and its two helpers, character by    *)
(* character.  Indices are 1-based; a match position of 0 means no match.  *)
(***************************************************************************)
\* the first index at or after i whose character is not whitespace
AfterSpaces(s, i) ==
    Min({j \in i..Len(s) : ~IsSpace(s[j])} \cup {Len(s) + 1})

\* the first index at or after i whose character is not a word character
AfterWord(s, i) ==
    Min({j \in i..Len(s) : ~IsWord(s[j])} \cup {Len(s) + 1})

\* the literal lit occurs in s at index i
LiteralAt(s, i, lit, ignorecase) ==
    /\ i + Len(lit) - 1 <= Len(s)
    /\ LET t == SubSeq(s, i, i + Len(lit) - 1)
       IN  IF ignorecase THEN Lower(t) = lit ELSE t = lit

kw_public == <<"p", "u", "b", "l", "i", "c">>
kw_void == <<"v", "o", "i", "d">>
kw_test == <<"t", "e", "s", "t">>

\* r'public\s+void\s+test' matched at index i: the index after the match, or 0
PublicVoidTestAt(s, i, ignorecase) ==
    IF ~LiteralAt(s, i, kw_public, ignorecase) THEN 0
    ELSE LET a == i + Len(kw_public)
             b == AfterSpaces(s, a)
         IN  IF b = a \/ ~LiteralAt(s, b, kw_void, ignorecase) THEN 0
             ELSE LET c == b + Len(kw_void)
                      d == AfterSpaces(s, c)
                  IN  IF d = c \/ ~LiteralAt(s, d, kw_test, ignorecase) THEN 0
                      ELSE d + Len(kw_test)

\* r'public\s+void\s+test\w*\s*\([^)]*\)' matches at index i
SignatureAt(s, i) ==
    LET e == PublicVoidTestAt(s, i, FALSE)
    IN  /\ e # 0
        /\ LET p == AfterSpaces(s, AfterWord(s, e))
           IN  /\ p <= Len(s)
               /\ s[p] = "("
               /\ \E k \in (p + 1)..Len(s) : s[k] = ")"

\* re.search of the signature: the index of the leftmost match, or 0
SignatureSearch(s) ==
    LET starts == {i \in 1..Len(s) : SignatureAt(s, i)}
    IN  IF starts = {} THEN 0 ELSE Min(starts)

\* the start of the last match of re.finditer(r'public\s+void\s+test', s,
\* re.IGNORECASE), or 0
LastPublicVoidTest(s) ==
    LET starts == {i \in 1..Len(s) : PublicVoidTestAt(s, i, TRUE) # 0}
    IN  IF starts = {} THEN 0 ELSE Max(starts)

\* prompt in output
Contains(s, sub) ==
    \E i \in 1..(Len(s) - Len(sub) + 1) : SubSeq(s, i, i + Len(sub) - 1) = sub

\* s[n:] for a 0-based n
Drop(s, n) == SubSeq(s, n + 1, Len(s))

\* str.strip()
Strip(s) ==
    LET kept == {i \in 1..Len(s) : ~IsSpace(s[i])}
    IN  IF kept = {} THEN <<>> ELSE SubSeq(s, Min(kept), Max(kept))

\* str.count(c)
Count(s, c) == Cardinality({i \in 1..Len(s) : s[i] = c})

\* the brace loop of _extract_single_method from index i on: the values of
\* end_idx (0: the loop ended without break) and brace_count it leaves
RECURSIVE BraceScan(_, _, _, _)
BraceScan(code, i, brace_count, in_method) ==
    IF i > Len(code) THEN [end_idx |-> 0, brace_count |-> brace_count]
    ELSE IF code[i] = "{" THEN BraceScan(code, i + 1, brace_count + 1, TRUE)
    ELSE IF code[i] = "}"
         THEN IF in_method /\ brace_count - 1 = 0
              THEN [end_idx |-> i, brace_count |-> 0]
              ELSE BraceScan(code, i + 1, brace_count - 1, in_method)
    ELSE BraceScan(code, i + 1, brace_count, in_method)

\* TestGenerator._extract_single_method
_extract_single_method(code) ==
    LET start_idx == SignatureSearch(code)
    IN  IF start_idx = 0 THEN None
        ELSE LET scan == BraceScan(code, start_idx, 0, FALSE)
             IN  IF scan.brace_count # 0 THEN None
                 ELSE IF scan.end_idx = 0 THEN <<>>
                 ELSE Strip(SubSeq(code, start_idx, scan.end_idx))

\* the least number of characters _validate_method wants in the body
MinBodyLen == 10

\* group(1) of re.search(r'\{(.+)\}', method, re.DOTALL), None without a match
BodyMatch(method) ==
    LET opens == {i \in 1..Len(method) : method[i] = "{"}
        closes == {i \in 1..Len(method) : method[i] = "}"}
    IN  IF opens = {} \/ closes = {} \/ Max(closes) < Min(opens) + 2 THEN None
        ELSE SubSeq(method, Min(opens) + 1, Max(closes) - 1)

\* TestGenerator._validate_method
_validate_method(method) ==
    /\ SignatureSearch(method) # 0
    /\ Count(method, "{") > 0 /\ Count(method, "}") > 0
    /\ BodyMatch(method) # None /\ Len(Strip(BodyMatch(method))) >= MinBodyLen
    /\ Count(method, "{") = Count(method, "}")

\* TestGenerator._extract_test_method
_extract_test_method(output, prompt) ==
    LET found == Contains(output, prompt) \/ LastPublicVoidTest(output) # 0
        generated == Strip(IF Contains(output, prompt) THEN Drop(output, Len(prompt))
                           ELSE Drop(output, LastPublicVoidTest(output) - 1))
        completed == IF StartsWith(generated, kw_public) THEN generated
                     ELSE kw_public \o <<" ">> \o kw_void \o <<" ">> \o kw_test \o generated
        method == _extract_single_method(completed)
    IN  IF ~found THEN None
        ELSE IF method = None \/ method = <<>> THEN None
        ELSE IF ~_validate_method(method) THEN None
        ELSE method

(***************************************************************************)
(* Specification of extraction: a raw output made of an optional prompt    *)
(* head, a first signature and up to MaxPieces further pieces; the method  *)
(* is extracted from it, and extracted once more from the returned unit.   *)
(***************************************************************************)
MaxPieces == 5

\* the prompt: some text that ends with "public void test" (prompt_builder)
PromptHead == <<"Q", ":", " ">>
Prompt == PromptHead \o kw_public \o <<" ">> \o kw_void \o <<" ">> \o kw_test

Leads == { <<>>, PromptHead }

Signatures ==
    { <<"p", "u", "b", "l", "i", "c", " ", "v", "o", "i", "d", " ", "t", "e", "s", "t", "A", "(", ")">>,
      <<"p", "u", "b", "l", "i", "c", " ", "v", "o", "i", "d", " ", "t", "e", "s", "t", "A">>,
      <<"P", "u", "b", "l", "i", "c", " ", "V", "o", "i", "d", " ", "T", "e", "s", "t", "A", "(", ")">>,
      <<"v", "o", "i", "d", " ", "t", "e", "s", "t", "A", "(", ")">> }

Pieces ==
    { <<" ", "{">>,
      <<" ", "}">>,
      <<" ", "x", "x", "x", "x", "x", "x", "x", "x", "x", "x">>,
      <<" ", "p", "u", "b", "l", "i", "c", " ", "v", "o", "i", "d", " ", "t", "e", "s", "t", "B", "(", ")">> }

RECURSIVE Tails(_)
Tails(n) ==
    IF n = 0 THEN { <<>> }
    ELSE LET shorter == Tails(n - 1)
         IN  shorter \cup {tail \o piece : tail \in shorter, piece \in Pieces}

RawOutputs ==
    {lead \o signature \o tail :
        lead \in Leads, signature \in Signatures, tail \in Tails(MaxPieces)}

ExtractInit ==
    /\ CIdle
    /\ RIdle
    /\ PIdle
    /\ HIdle
    /\ IIdle
    /\ BIdle
    /\ e_output \in RawOutputs
    /\ e_prompt = Prompt
    /\ e_unit = <<>>
    /\ e_again = <<>>
    /\ e_pc = "raw"

\* generate_tests, "test_code = self._extract_test_method(output, prompt)"
ExtractTestMethod ==
    /\ e_pc = "raw"
    /\ e_unit' = _extract_test_method(e_output, e_prompt)
    /\ e_pc' = "extracted"
    /\ UNCHANGED <<e_output, e_prompt, e_again, notE>>

\* _extract_test_method applied to the unit it returned
ExtractAgain ==
    /\ e_pc = "extracted"
    /\ e_unit # None
    /\ e_again' = _extract_test_method(e_unit, e_prompt)
    /\ e_pc' = "again"
    /\ UNCHANGED <<e_output, e_prompt, e_unit, notE>>

ExtractNext == ExtractTestMethod \/ ExtractAgain

SpecExtract == ExtractInit /\ [][ExtractNext]_vars

(***************************************************************************)
(* TestProcessor.inject_test.  File contents and paths are sequences of    *)
(* characters; lists of lines are sequences of such sequences.  Line       *)
(* indices are those of the code (0-based), -1 for "not found".            *)
(***************************************************************************)
\* s.split('\n')
RECURSIVE SplitLines(_)
SplitLines(s) ==
    LET newlines == {i \in 1..Len(s) : s[i] = "\n"}
    IN  IF newlines = {} THEN <<s>>
        ELSE <<SubSeq(s, 1, Min(newlines) - 1)>> \o SplitLines(Drop(s, Min(newlines)))

\* '\n'.join(lines)
RECURSIVE JoinLines(_)
JoinLines(lines) ==
    IF lines = <<>> THEN <<>>
    ELSE IF Len(lines) = 1 THEN lines[1]
    ELSE lines[1] \o <<"\n">> \o JoinLines(Tail(lines))

\* lines.insert(index, x), for 0 <= index <= len(lines)
InsertAt(lines, index, x) ==
    SubSeq(lines, 1, index) \o <<x>> \o SubSeq(lines, index + 1, Len(lines))

kw_class == <<"c", "l", "a", "s", "s">>
kw_package == <<"p", "a", "c", "k", "a", "g", "e", " ">>
kw_import == <<"i", "m", "p", "o", "r", "t", " ">>

\* re.search(r'\bclass\s+\w+', line)
HasClassDeclaration(line) ==
    \E i \in 1..Len(line) :
        /\ i = 1 \/ ~IsWord(line[i - 1])
        /\ LiteralAt(line, i, kw_class, FALSE)
        /\ LET a == i + Len(kw_class)
               b == AfterSpaces(line, a)
           IN  b > a /\ b <= Len(line) /\ IsWord(line[b])

\* the first loop of _inject_method: class_start
ClassStart(lines) ==
    LET found == {i \in 0..(Len(lines) - 1) : HasClassDeclaration(lines[i + 1])}
    IN  IF found = {} THEN -1 ELSE Min(found)

\* the second loop of _inject_method from line i on: class_end
RECURSIVE ClassEnd(_, _, _, _)
ClassEnd(lines, i, class_start, brace_count) ==
    IF i >= Len(lines) THEN -1
    ELSE LET count == brace_count + Count(lines[i + 1], "{") - Count(lines[i + 1], "}")
         IN  IF count = 0 /\ i > class_start THEN i
             ELSE ClassEnd(lines, i + 1, class_start, count)

Indent == <<" ", " ", " ", " ">>

\* '\n'.join('    ' + line for line in test_method.split('\n'))
IndentedMethod(test_method) ==
    LET method_lines == SplitLines(test_method)
    IN  JoinLines([k \in 1..Len(method_lines) |-> Indent \o method_lines[k]])

NoClassDeclaration == <<"Could not find class declaration">>
NoClosingBrace == <<"Could not find class closing brace">>

\* TestProcessor._inject_method: raised tells whether it raises ValueError,
\* value is the message or the returned content
_inject_method(class_content, test_method) ==
    LET lines == SplitLines(class_content)
        class_start == ClassStart(lines)
        class_end == ClassEnd(lines, class_start, class_start, 0)
    IN  IF class_start = -1 THEN [raised |-> TRUE, value |-> NoClassDeclaration]
        ELSE IF class_end = -1 THEN [raised |-> TRUE, value |-> NoClosingBrace]
        ELSE [raised |-> FALSE,
              value |-> JoinLines(InsertAt(lines, class_end,
                            <<"\n">> \o IndentedMethod(test_method) \o <<"\n">>))]

\* the second loop of _add_imports from line i on: last_import_idx
RECURSIVE LastImportIdx(_, _, _)
LastImportIdx(lines, i, last_import_idx) ==
    IF i >= Len(lines) THEN last_import_idx
    ELSE LET line == Strip(lines[i + 1])
         IN  IF StartsWith(line, kw_import) THEN LastImportIdx(lines, i + 1, i + 1)
             ELSE IF line # <<>> THEN last_import_idx
             ELSE LastImportIdx(lines, i + 1, last_import_idx)

\* TestProcessor._add_imports
_add_imports(class_content, imports) ==
    IF imports = <<>> THEN class_content
    ELSE LET lines == SplitLines(class_content)
             packages == {i \in 0..(Len(lines) - 1) :
                              StartsWith(Strip(lines[i + 1]), kw_package)}
             insert_idx == IF packages = {} THEN 0 ELSE Min(packages) + 1
             last_import_idx == LastImportIdx(lines, insert_idx, insert_idx)
         IN  JoinLines(InsertAt(lines, last_import_idx, JoinLines(imports)))

(***************************************************************************)
(* TestProcessor._resolve_dependencies.  The regular expressions are       *)
(* matched character by character; the project is the dict of its files,   *)
(* java_files the order in which rglob enumerates them and class_order     *)
(* the order in which the set of referenced classes is listed.             *)
(***************************************************************************)
\* TestProcessor._extract_imports
_extract_imports(class_content) ==
    LET lines == SplitLines(class_content)
        stripped == [k \in 1..Len(lines) |-> Strip(lines[k])]
    IN  SelectSeq(stripped,
                  LAMBDA line : StartsWith(line, kw_import) /\ EndsWith(line, <<";">>))

\* TestProcessor._detect_junit_version
_detect_junit_version(class_content) ==
    IF Contains(class_content, <<"o", "r", "g", ".", "j", "u", "n", "i", "t", ".", "j", "u", "p", "i", "t", "e", "r">>) THEN "junit5"
    ELSE IF \/ Contains(class_content, <<"o", "r", "g", ".", "j", "u", "n", "i", "t", ".", "T", "e", "s", "t">>)
            \/ Contains(class_content, <<"o", "r", "g", ".", "j", "u", "n", "i", "t", ".", "A", "s", "s", "e", "r", "t">>) THEN "junit4"
    ELSE IF Contains(class_content, <<"j", "u", "n", "i", "t", ".", "f", "r", "a", "m", "e", "w", "o", "r", "k">>) THEN "junit3"
    ELSE "junit4"

\* \b before the word character at index i
WordStartsAt(s, i) == i = 1 \/ ~IsWord(s[i - 1])

\* r'name\w+\s*\(' (suffix) or r'name\s*\(' matched at index i, IGNORECASE
CallAt(s, i, name, suffix) ==
    /\ LiteralAt(s, i, name, TRUE)
    /\ LET a == i + Len(name)
           b == IF suffix THEN AfterWord(s, a) ELSE a
           c == AfterSpaces(s, b)
       IN  /\ suffix => b > a
           /\ c <= Len(s)
           /\ s[c] = "("

\* TestProcessor._has_assertions
_has_assertions(test_code) ==
    \E i \in 1..Len(test_code) :
        /\ WordStartsAt(test_code, i)
        /\ \/ CallAt(test_code, i, <<"a", "s", "s", "e", "r", "t">>, TRUE)
           \/ CallAt(test_code, i, <<"f", "a", "i", "l">>, FALSE)
           \/ CallAt(test_code, i, <<"e", "x", "p", "e", "c", "t">>, TRUE)

\* [A-Z]\w+ at index i: the index after it, or 0
ClassNameAt(s, i) ==
    IF i <= Len(s) /\ IsUpper(s[i]) /\ AfterWord(s, i) > i + 1 THEN AfterWord(s, i) ELSE 0

kw_new == <<"n", "e", "w">>

\* TestProcessor._extract_referenced_classes, as a set
_extract_referenced_classes(test_code) ==
    LET s == test_code
        \* r'\bnew\s+([A-Z]\w+)\s*\('
        pattern1 == { SubSeq(s, AfterSpaces(s, i + Len(kw_new)),
                             ClassNameAt(s, AfterSpaces(s, i + Len(kw_new))) - 1) :
                      i \in { j \in 1..Len(s) :
                                /\ WordStartsAt(s, j)
                                /\ LiteralAt(s, j, kw_new, FALSE)
                                /\ LET b == AfterSpaces(s, j + Len(kw_new))
                                       e == ClassNameAt(s, b)
                                   IN  /\ b > j + Len(kw_new)
                                       /\ e > 0
                                       /\ AfterSpaces(s, e) <= Len(s)
                                       /\ s[AfterSpaces(s, e)] = "(" } }
        \* r'\b([A-Z]\w+)\.'
        pattern2 == { SubSeq(s, i, ClassNameAt(s, i) - 1) :
                      i \in { j \in 1..Len(s) :
                                /\ WordStartsAt(s, j)
                                /\ LET e == ClassNameAt(s, j)
                                   IN  e > 0 /\ e <= Len(s) /\ s[e] = "." } }
        \* r'\b([A-Z]\w+)\s+\w+\s*='
        pattern3 == { SubSeq(s, i, ClassNameAt(s, i) - 1) :
                      i \in { j \in 1..Len(s) :
                                /\ WordStartsAt(s, j)
                                /\ LET e == ClassNameAt(s, j)
                                       b == AfterSpaces(s, e)
                                       w == AfterWord(s, b)
                                       c == AfterSpaces(s, w)
                                   IN  /\ e > 0
                                       /\ b > e
                                       /\ w > b
                                       /\ c <= Len(s)
                                       /\ s[c] = "=" } }
    IN  pattern1 \cup pattern2 \cup pattern3

\* the java.lang classes _resolve_dependencies skips
java_lang ==
    { <<"S", "t", "r", "i", "n", "g">>,
      <<"I", "n", "t", "e", "g", "e", "r">>,
      <<"D", "o", "u", "b", "l", "e">>,
      <<"F", "l", "o", "a", "t">>,
      <<"B", "o", "o", "l", "e", "a", "n">>,
      <<"L", "o", "n", "g">>,
      <<"S", "h", "o", "r", "t">>,
      <<"B", "y", "t", "e">>,
      <<"C", "h", "a", "r", "a", "c", "t", "e", "r">>,
      <<"O", "b", "j", "e", "c", "t">>,
      <<"M", "a", "t", "h">>,
      <<"S", "y", "s", "t", "e", "m">> }

\* the first index at or after i whose character is neither \w nor "."
AfterQualifiedName(s, i) ==
    Min({j \in i..Len(s) : ~IsWord(s[j]) /\ s[j] # "."} \cup {Len(s) + 1})

\* re.findall(rf'import\s+([\w.]+\.{class_name})\s*;', content) from index i on
RECURSIVE ImportMatches(_, _, _)
ImportMatches(content, class_name, i) ==
    IF i > Len(content) THEN <<>>
    ELSE LET b == AfterSpaces(content, i + Len(kw_import) - 1)
             e == AfterQualifiedName(content, b)
             c == AfterSpaces(content, e)
             name == SubSeq(content, b, e - 1)
         IN  IF /\ LiteralAt(content, i, SubSeq(kw_import, 1, Len(kw_import) - 1), FALSE)
                /\ b > i + Len(kw_import) - 1
                /\ EndsWith(name, <<".">> \o class_name)
                /\ Len(name) > Len(class_name) + 1
                /\ c <= Len(content)
                /\ content[c] = ";"
             THEN <<name>> \o ImportMatches(content, class_name, c + 1)
             ELSE ImportMatches(content, class_name, i + 1)

\* the import_candidates of _find_class_import over the files java_files
RECURSIVE ImportCandidates(_, _, _)
ImportCandidates(fs, java_files, class_name) ==
    IF java_files = <<>> THEN <<>>
    ELSE (IF fs[java_files[1]] = Unreadable THEN <<>>
          ELSE ImportMatches(fs[java_files[1]], class_name, 1))
         \o ImportCandidates(fs, Tail(java_files), class_name)

\* Counter(import_candidates).most_common(1)[0][0]: the most frequent
\* candidate, the first met among equally frequent ones
MostCommon(import_candidates) ==
    LET times(x) == Cardinality({k \in 1..Len(import_candidates) : import_candidates[k] = x})
        first == Min({k \in 1..Len(import_candidates) :
                        \A l \in 1..Len(import_candidates) :
                            times(import_candidates[l]) <= times(import_candidates[k])})
    IN  import_candidates[first]

\* TestProcessor._find_class_import
_find_class_import(class_name, fs, java_files) ==
    LET import_candidates == ImportCandidates(fs, java_files, class_name)
    IN  IF import_candidates = <<>> THEN None
        ELSE kw_import \o MostCommon(import_candidates) \o <<";">>

\* the loop of _resolve_dependencies over the referenced classes
RECURSIVE ClassImports(_, _, _, _)
ClassImports(class_order, existing_imports, fs, java_files) ==
    IF class_order = <<>> THEN <<>>
    ELSE LET class_name == class_order[1]
             import_stmt == _find_class_import(class_name, fs, java_files)
             rest == ClassImports(Tail(class_order), existing_imports, fs, java_files)
         IN  IF \E k \in 1..Len(existing_imports) : Contains(existing_imports[k], class_name)
             THEN rest
             ELSE IF class_name \in java_lang THEN rest
             ELSE IF import_stmt # None /\ ~InSeq(import_stmt, existing_imports)
             THEN <<import_stmt>> \o rest
             ELSE rest

\* TestProcessor._resolve_dependencies
_resolve_dependencies(test_code, host_class, fs, java_files, class_order) ==
    LET existing_imports == _extract_imports(host_class)
        junit_version == _detect_junit_version(host_class)
        assertions ==
            IF ~_has_assertions(test_code) THEN <<>>
            ELSE IF junit_version = "junit4"
            THEN IF ~InSeq(<<"i", "m", "p", "o", "r", "t", " ", "s", "t", "a", "t", "i", "c", " ", "o", "r", "g", ".", "j", "u", "n", "i", "t", ".", "A", "s", "s", "e", "r", "t", ".", "*">>, existing_imports)
                 THEN << <<"i", "m", "p", "o", "r", "t", " ", "s", "t", "a", "t", "i", "c", " ", "o", "r", "g", ".", "j", "u", "n", "i", "t", ".", "A", "s", "s", "e", "r", "t", ".", "*", ";">> >> ELSE <<>>
            ELSE IF junit_version = "junit5"
            THEN IF ~InSeq(<<"i", "m", "p", "o", "r", "t", " ", "s", "t", "a", "t", "i", "c", " ", "o", "r", "g", ".", "j", "u", "n", "i", "t", ".", "j", "u", "p", "i", "t", "e", "r", ".", "a", "p", "i", ".", "A", "s", "s", "e", "r", "t", "i", "o", "n", "s", ".", "*">>, existing_imports)
                 THEN << <<"i", "m", "p", "o", "r", "t", " ", "s", "t", "a", "t", "i", "c", " ", "o", "r", "g", ".", "j", "u", "n", "i", "t", ".", "j", "u", "p", "i", "t", "e", "r", ".", "a", "p", "i", ".", "A", "s", "s", "e", "r", "t", "i", "o", "n", "s", ".", "*", ";">> >> ELSE <<>>
            ELSE <<>>
        annotation ==
            IF ~Contains(test_code, <<"@", "T", "e", "s", "t">>) THEN <<>>
            ELSE IF junit_version = "junit4"
            THEN IF ~InSeq(<<"i", "m", "p", "o", "r", "t", " ", "o", "r", "g", ".", "j", "u", "n", "i", "t", ".", "T", "e", "s", "t">>, existing_imports)
                 THEN << <<"i", "m", "p", "o", "r", "t", " ", "o", "r", "g", ".", "j", "u", "n", "i", "t", ".", "T", "e", "s", "t", ";">> >> ELSE <<>>
            ELSE IF junit_version = "junit5"
            THEN IF ~InSeq(<<"i", "m", "p", "o", "r", "t", " ", "o", "r", "g", ".", "j", "u", "n", "i", "t", ".", "j", "u", "p", "i", "t", "e", "r", ".", "a", "p", "i", ".", "T", "e", "s", "t">>, existing_imports)
                 THEN << <<"i", "m", "p", "o", "r", "t", " ", "o", "r", "g", ".", "j", "u", "n", "i", "t", ".", "j", "u", "p", "i", "t", "e", "r", ".", "a", "p", "i", ".", "T", "e", "s", "t", ";">> >> ELSE <<>>
            ELSE <<>>
    IN  assertions \o annotation \o ClassImports(class_order, existing_imports, fs, java_files)

\* Path.parent with its trailing "/" ("" for a bare file name)
ParentOf(path) == SubSeq(path, 1, Len(path) - Len(FileName(path)))

\* Path.stem: the name without its last suffix
StemOf(path) ==
    LET name == FileName(path)
        dots == {i \in 2..(Len(name) - 1) : name[i] = "."}
    IN  IF dots = {} THEN name ELSE SubSeq(name, 1, Max(dots) - 1)

java_suffix == <<".", "j", "a", "v", "a">>

\* inject_test with the test id left out of the file name
ModifiedPath_without_id(host_class_path, test_id) ==
    ParentOf(host_class_path) \o StemOf(host_class_path) \o java_suffix

\* Path(host_class_path).parent / f"{Path(host_class_path).stem}_{test_id}.java"
ModifiedPath(host_class_path, test_id) ==
    ParentOf(host_class_path) \o StemOf(host_class_path) \o <<"_">> \o test_id
        \o java_suffix

\* TestProcessor.inject_test on the files fs: the dict it returns and the
\* files it leaves
inject_test(fs, test_code, host_class_path, test_id, java_files, class_order) ==
    LET class_content == fs[host_class_path]
        needed_imports == _resolve_dependencies(test_code, class_content, fs, java_files,
                                                class_order)
        injected == _inject_method(_add_imports(class_content, needed_imports), test_code)
        modified_path == ModifiedPath(host_class_path, test_id)
    IN  IF host_class_path \notin DOMAIN fs \/ class_content = Unreadable
        THEN [result |-> [success |-> FALSE, modified_class_path |-> None,
                          added_imports |-> <<>>, error |-> <<"OSError">>],
              fs |-> fs]
        ELSE IF injected.raised
        THEN [result |-> [success |-> FALSE, modified_class_path |-> None,
                          added_imports |-> <<>>, error |-> injected.value],
              fs |-> fs]
        ELSE [result |-> [success |-> TRUE, modified_class_path |-> modified_path,
                          added_imports |-> needed_imports, error |-> None],
              fs |-> Put(fs, modified_path, injected.value)]

\* run_on_bug, test_id = f"test_{i}" for i < 10
TestIdStr(i) ==
    <<"t", "e", "s", "t", "_">>
        \o <<(<<"0", "1", "2", "3", "4", "5", "6", "7", "8", "9">>)[i + 1]>>

(***************************************************************************)
(* Specification of injection: a checkout with one test file of up to      *)
(* MaxLines lines, then the candidates of one bug injected one after the   *)
(* other, each into a test file the checkout holds at that time.           *)
(***************************************************************************)
MaxLines == 3
MaxInjections == 2

HostLines ==
    { <<"p", "a", "c", "k", "a", "g", "e", " ", "p", ";">>,
      <<"i", "m", "p", "o", "r", "t", " ", "a", ".", "B", ";">>,
      <<"i", "m", "p", "o", "r", "t", " ", "o", "r", "g", ".", "j", "u", "n", "i", "t", ".", "T", "e", "s", "t", ";">>,
      <<"c", "l", "a", "s", "s", " ", "A", " ", "{">>,
      <<"c", "l", "a", "s", "s", " ", "A">>,
      <<"{">>,
      <<"}">>,
      <<"{", "}">> }

RECURSIVE LineLists(_)
LineLists(n) ==
    IF n = 0 THEN { <<>> }
    ELSE LET shorter == LineLists(n - 1)
         IN  shorter \cup {Append(lines, line) : lines \in shorter, line \in HostLines}

InjectHost == <<"t", "e", "s", "t", "/", "T", "e", "s", "t", "A", ".", "j", "a", "v", "a">>

InjectCode == <<"@", "T", "e", "s", "t", "\n", "p", "u", "b", "l", "i", "c", " ", "v", "o", "i", "d", " ", "t", "e", "s", "t", "A", "(", ")", " ", "{", "\n", "}">>

InjectInit ==
    /\ CIdle
    /\ RIdle
    /\ PIdle
    /\ HIdle
    /\ EIdle
    /\ BIdle
    /\ \E lines \in LineLists(MaxLines) : i_fs = (InjectHost :> JoinLines(lines))
    /\ i_idx = 0
    /\ i_log = <<>>

\* run_on_bug, one candidate: the host is a test file of the checkout
InjectTest ==
    /\ i_idx < MaxInjections
    /\ \E host_class_path \in {path \in DOMAIN i_fs : IsTestFileName(FileName(path))},
          class_order \in Orderings(_extract_referenced_classes(InjectCode)) :
         \* rglob runs only when a referenced class is looked up
         \E java_files \in IF class_order = <<>> THEN { <<>> }
                            ELSE Orderings({path \in DOMAIN i_fs :
                                              EndsWith(path, java_suffix)}) :
         LET test_id == TestIdStr(i_idx)
             call == inject_test(i_fs, InjectCode, host_class_path, test_id, java_files,
                                 class_order)
         IN  /\ i_fs' = call.fs
             /\ i_log' = Append(i_log, [host_class_path |-> host_class_path,
                                        test_id |-> test_id,
                                        result |-> call.result,
                                        before |-> i_fs,
                                        after |-> call.fs])
    /\ i_idx' = i_idx + 1
    /\ UNCHANGED notI

InjectNext == InjectTest

SpecInject == InjectInit /\ [][InjectNext]_vars

(***************************************************************************)
(* BatchProcessor.process_bugs.  A call of run_on_bug is reduced to its    *)
(* outcome; a write of progress.json succeeds, fails at open (the file is  *)
(* left as it was) or fails after open (the file is left truncated).       *)
(***************************************************************************)
MaxBugs == 2

\* f"{bug_report['project']}-{bug_report['bug_id']}" for the n-th report
BugId(n) == <<"P", "-">> \o <<(<<"1", "2", "3", "4", "5", "6", "7", "8", "9">>)[n]>>

\* run_on_bug returns its results, without or with entries in "errors", or raises
RunOutcomes == {"returned", "returned_errors", "raised"}

SaveOutcomes == {"ok", "open_failed", "write_failed"}

\* the dict run_on_bug returned, by its "errors" entry
BugResults(run) == [kind |-> "results", errors |-> run = "returned_errors"]

\* the dict the except handler stores
ErrorRecord == [kind |-> "error", errors |-> FALSE]

\* BatchProcessor._save_progress: progress.json after the call
_save_progress(file, results, save) ==
    CASE save = "ok" -> [exists |-> TRUE, corrupt |-> FALSE, results |-> results]
      [] save = "open_failed" -> file
      [] save = "write_failed" -> [exists |-> TRUE, corrupt |-> TRUE, results |-> <<>>]

\* the except handler of process_bugs re-raising the exception
AfterHandler_reraise(handler_save) == "raised"

\* process_bugs after "self._save_progress(results)" in the except handler:
\* "continue", unless that call raised
AfterHandler(handler_save) == IF handler_save = "ok" THEN "loop" ELSE "raised"

BatchInit ==
    /\ CIdle
    /\ RIdle
    /\ PIdle
    /\ HIdle
    /\ EIdle
    /\ IIdle
    /\ \E n \in 0..MaxBugs : b_bugs = [k \in 1..n |-> BugId(k)]
    /\ b_resume_from \in {None} \cup {BugId(k) : k \in 1..MaxBugs}
    /\ \/ b_file = NoFile
       \/ b_file = [exists |-> TRUE, corrupt |-> TRUE, results |-> <<>>]
       \/ \E done \in SUBSET {BugId(k) : k \in 1..MaxBugs} :
            b_file = [exists |-> TRUE, corrupt |-> FALSE,
                      results |-> [id \in done |-> BugResults("returned")]]
    /\ b_results = <<>>
    /\ b_start_processing = FALSE
    /\ b_i = 0
    /\ b_pc = "start"
    /\ b_log = <<>>
    /\ b_restarts = 0
    /\ b_history = <<>>

\* process_bugs up to the loop: "Load existing results if resuming"
LoadProgress ==
    /\ b_pc = "start"
    /\ b_start_processing' = (b_resume_from = None)
    /\ IF ~b_file.exists THEN b_results' = <<>> /\ b_pc' = "loop"
       ELSE IF b_file.corrupt THEN b_pc' = "raised" /\ UNCHANGED b_results
       ELSE b_results' = b_file.results /\ b_pc' = "loop"
    /\ UNCHANGED <<b_bugs, b_resume_from, b_file, b_i, b_log, b_restarts, b_history, notB>>

\* the bug ids whose results progress.json holds
Persisted(file) == IF file.exists /\ ~file.corrupt THEN DOMAIN file.results ELSE {}

\* one iteration of the loop of process_bugs
ProcessBug ==
    /\ b_pc = "loop"
    /\ b_i < Len(b_bugs)
    /\ b_i' = b_i + 1
    /\ LET bug_id == b_bugs[b_i + 1]
           started == b_start_processing \/ bug_id = b_resume_from
           Entry(run, save, handler_save) ==
               [bug_id |-> bug_id, run |-> run, save |-> save,
                handler_save |-> handler_save]
       IN  /\ b_start_processing' = started
           /\ IF ~started
              THEN /\ b_log' = Append(b_log, Entry("before_resume", "none", "none"))
                   /\ UNCHANGED <<b_results, b_file, b_pc, b_history>>
              ELSE IF bug_id \in DOMAIN b_results
              THEN /\ b_log' = Append(b_log, Entry("already_processed", "none", "none"))
                   /\ UNCHANGED <<b_results, b_file, b_pc, b_history>>
              ELSE \E run \in RunOutcomes, save \in SaveOutcomes, handler_save \in SaveOutcomes :
                     LET stored == IF run = "raised" THEN b_results
                                   ELSE Put(b_results, bug_id, BugResults(run))
                         saved == IF run = "raised" THEN b_file
                                  ELSE _save_progress(b_file, stored, save)
                         handled == Put(stored, bug_id, ErrorRecord)
                     IN  IF run # "raised" /\ save = "ok"
                         THEN /\ b_results' = stored
                              /\ b_file' = saved
                              /\ b_pc' = "loop"
                              /\ b_log' = Append(b_log, Entry(run, save, "none"))
                         ELSE /\ b_results' = handled
                              /\ b_file' = _save_progress(saved, handled, handler_save)
                              /\ b_pc' = AfterHandler(handler_save)
                              /\ b_log' = Append(b_log,
                                     Entry(run, IF run = "raised" THEN "none" ELSE save,
                                           handler_save))
           /\ bug_id \notin DOMAIN b_results /\ started =>
                  b_history' = Append(b_history,
                                      [bug_id |-> bug_id,
                                       persisted_before |-> Persisted(b_file),
                                       saved |-> bug_id \in Persisted(b_file'),
                                       continued |-> b_pc' = "loop"])
    /\ UNCHANGED <<b_bugs, b_resume_from, b_restarts, notB>>

\* process_bugs after the loop: _save_final_results and the return
SaveFinalResults ==
    /\ b_pc = "loop"
    /\ b_i = Len(b_bugs)
    /\ \E save \in SaveOutcomes : b_pc' = IF save = "ok" THEN "returned" ELSE "raised"
    /\ UNCHANGED <<b_bugs, b_resume_from, b_file, b_results, b_start_processing, b_i,
                   b_log, b_restarts, b_history, notB>>

MaxRestarts == 1

\* the process is interrupted between two iterations of the loop
Interrupt ==
    /\ b_pc = "loop"
    /\ b_pc' = "interrupted"
    /\ UNCHANGED <<b_bugs, b_resume_from, b_file, b_results, b_start_processing, b_i,
                   b_log, b_restarts, b_history, notB>>

\* process_bugs is called again with the same arguments after a run that
\* was interrupted or raised; only progress.json is left of that run
Restart ==
    /\ b_pc \in {"interrupted", "raised"}
    /\ b_restarts < MaxRestarts
    /\ b_restarts' = b_restarts + 1
    /\ b_pc' = "start"
    /\ b_results' = <<>>
    /\ b_start_processing' = FALSE
    /\ b_i' = 0
    /\ b_log' = <<>>
    /\ UNCHANGED <<b_bugs, b_resume_from, b_file, b_history, notB>>

BatchNext == LoadProgress \/ ProcessBug \/ SaveFinalResults \/ Interrupt \/ Restart

(***************************************************************************)
(* Specification of a run of the tool: run_on_bug on one bug, step by      *)
(* step, or process_bugs over a list of bugs.                              *)
(***************************************************************************)
RunInit == PipelineInit \/ BatchInit

RunNext == Next \/ BatchNext

SpecRun == RunInit /\ [][RunNext]_vars

(***************************************************************************)
(* Properties.                                                             *)
(***************************************************************************)
\* the flag k is present in dict d and true
IsTrue(d, k) == k \in DOMAIN d /\ d[k] = TRUE

BothCompiled(b, f) == IsTrue(b, "compiled") /\ IsTrue(f, "compiled")

\* C1: classify_test returns BRT exactly when both records are compiled, the
\* buggy record has failed and the fixed record has passed, and
\* is_bug_reproducing is true for exactly the same pairs.
C1_BRTExactlyFailsBuggyPassesFixed ==
    cpc = "done" =>
        LET reproduces == /\ BothCompiled(buggy_result, fixed_result)
                          /\ IsTrue(buggy_result, "failed")
                          /\ IsTrue(fixed_result, "passed")
        IN  /\ (classification = "BRT") <=> reproduces
            /\ is_brt <=> reproduces

C1_Witness ==
    /\ cpc = "done"
    /\ classification = "BRT"
    /\ is_brt
    /\ IsTrue(buggy_result, "failed")
    /\ IsTrue(fixed_result, "passed")

\* C2: a buggy record that is not compiled gives the buggy compile-error
\* classification, a compiled buggy record with a fixed record that is not
\* compiled gives the fixed one, and BRT, FIB or PIB is returned if and only
\* if both records are compiled.
C2_CompileErrorExactlyWhenNotCompiled ==
    cpc = "done" =>
        /\ ~IsTrue(buggy_result, "compiled") => classification = "COMPILATION_ERROR_BUGGY"
        /\ (IsTrue(buggy_result, "compiled") /\ ~IsTrue(fixed_result, "compiled"))
               => classification = "COMPILATION_ERROR_FIXED"
        /\ classification \in {"COMPILATION_ERROR_BUGGY", "COMPILATION_ERROR_FIXED"}
               => ~BothCompiled(buggy_result, fixed_result)
        /\ classification \in {"BRT", "FIB", "PIB"}
               <=> BothCompiled(buggy_result, fixed_result)

C2_Witness ==
    /\ cpc = "done"
    /\ ~IsTrue(buggy_result, "compiled")
    /\ ~IsTrue(fixed_result, "compiled")
    /\ classification = "COMPILATION_ERROR_BUGGY"

\* the candidates whose iteration reached "Store execution results"
Executed == {n \in 1..Len(candidates) : "execution" \in DOMAIN candidates[n]}

\* C3: when the buggy checkout is about to be compiled and tested, the file
\* inject_test wrote for the running candidate is in the buggy checkout, and
\* when the fixed checkout is about to be compiled and tested the file is in
\* the fixed checkout.
C3_InjectedFilePresentAtExecution ==
    /\ pc = "execute_buggy" => idx \in buggy_dir.injected
    /\ pc = "execute_fixed" => idx \in fixed_dir.injected

\* C4: every candidate in the ranking input fib_tests, and every candidate of
\* the returned ranking, is classified BRT or FIB.
C4_RankingInputIsBRTOrFIB ==
    /\ \A k \in 1..Len(fib_tests) :
           candidates[fib_tests[k]].classification \in {"BRT", "FIB"}
    /\ \A k \in 1..Len(ranking) : ranking[k].classification \in {"BRT", "FIB"}

\* the size of the largest group of tests with one failure signature
LargestGroup(tests) ==
    IF tests = <<>> THEN 0
    ELSE Max({Cardinality({j \in 1..Len(tests) : ClusterKey(tests[j]) = ClusterKey(tests[i])}) :
              i \in 1..Len(tests)})

Body(t) == StripWhitespace(t.test_code)

\* the candidates that do not repeat the body of an earlier candidate
NonDuplicates(tests) ==
    {i \in 1..Len(tests) : \A j \in 1..(i - 1) : Body(tests[j]) # Body(tests[i])}

\* C6: when the largest failure-signature group is larger than the threshold
\* the ranking is not empty and every non-duplicate candidate of the input
\* occurs in it exactly once.
C6_NonDuplicatesRankedOnce ==
    (rk_pc = "done" /\ LargestGroup(rk_fib_tests) > rk_threshold) =>
        /\ rk_ranking # <<>>
        /\ \A i \in NonDuplicates(rk_fib_tests) :
               Cardinality({k \in 1..Len(rk_ranking) : rk_ranking[k] = rk_fib_tests[i]}) = 1

C6_Witness ==
    /\ rk_pc = "done"
    /\ LargestGroup(rk_fib_tests) > rk_threshold
    /\ Cardinality(NonDuplicates(rk_fib_tests)) = 3
    /\ Len(rk_ranking) = 3
    /\ Len(ClusterKeys(rk_fib_tests)) = 2

\* C7: the ranking returned by select_and_rank never holds two candidates
\* whose bodies are identical once whitespace is removed.
C7_NoTwoRankedWithSameBody ==
    rk_pc = "done" =>
        \A k, l \in 1..Len(rk_ranking) :
            Body(rk_ranking[k]) = Body(rk_ranking[l]) => k = l

TimedOut(run) == run # <<>> /\ (run[1] = "timeout" \/ run[2] = "timeout")

\* C8: a candidate whose buggy run timed out (compile or test phase) has a
\* buggy record with error type Timeout and neither passed nor failed, is
\* not in fib_tests, brt_tests or the ranking; a candidate whose fixed run
\* timed out has is_brt false and is not classified BRT.
C8_TimeoutNeverFailedNorBRT ==
    /\ (pc = "execute_fixed" /\ TimedOut(tool_log[idx + 1].buggy)) =>
           /\ cur_buggy.error_type = "Timeout"
           /\ ~cur_buggy.passed /\ ~cur_buggy.failed
    /\ \A n \in Executed :
           /\ TimedOut(tool_log[n].buggy) =>
                  /\ candidates[n].execution.buggy_result.error_type = "Timeout"
                  /\ ~candidates[n].execution.buggy_result.passed
                  /\ ~candidates[n].execution.buggy_result.failed
                  /\ ~InSeq(n, fib_tests)
                  /\ ~InSeq(n, brt_tests)
                  /\ \A k \in 1..Len(ranking) : ranking[k].test_id # candidates[n].test_id
                  /\ candidates[n].classification # "BRT"
           /\ TimedOut(tool_log[n].fixed) =>
                  /\ ~candidates[n].execution.is_brt
                  /\ candidates[n].classification # "BRT"
                  /\ ~InSeq(n, brt_tests)

C8_Witness ==
    /\ pc = "done"
    /\ \E n \in Executed : tool_log[n].buggy = <<"rc0", "timeout">>
    /\ \E n \in Executed : /\ tool_log[n].fixed = <<"timeout", "not_run">>
                           /\ InSeq(n, fib_tests)

\* C9: a candidate classified FIB has both records compiled and failed = true
\* in the buggy record and in the fixed record.
C9_FIBFailsOnBothRevisions ==
    \A n \in Executed :
        candidates[n].classification = "FIB" =>
            /\ BothCompiled(candidates[n].execution.buggy_result,
                            candidates[n].execution.fixed_result)
            /\ IsTrue(candidates[n].execution.buggy_result, "failed")
            /\ IsTrue(candidates[n].execution.fixed_result, "failed")

Taxonomy == {"COMPILATION_ERROR_BUGGY", "COMPILATION_ERROR_FIXED", "BRT", "FIB", "PIB"}

\* C10: for every combination of flags in the two records classify_test
\* returns one value of the taxonomy, never UNKNOWN.
C10_ClassificationTotal ==
    cpc = "done" => classification \in Taxonomy

C10_Witness ==
    /\ cpc = "done"
    /\ classification = "PIB"
    /\ IsTrue(buggy_result, "compiled") /\ IsTrue(fixed_result, "compiled")
    /\ ~IsTrue(buggy_result, "failed") /\ ~IsTrue(fixed_result, "passed")

(***************************************************************************)
(* Host selection                                                          *)
(***************************************************************************)
\* the recognized test files of the snapshot that can be read and hold a token
Scorable(files) ==
    {path \in _find_test_files(files) :
        files[path] # Unreadable /\ _tokenize(files[path]) # <<>>}

\* the score of the candidate against one file of the snapshot
ScoreOf(test_code, files, path) == Score(_tokenize(test_code), _tokenize(files[path]))

\* some recognized test file shares a token with the candidate
SharesToken(test_code, files) ==
    \E path \in Scorable(files) : ScoreOf(test_code, files, path)[1] > 0

\* C11: find_host_class never returns a host with score 0; when no recognized
\* test file shares a token with the candidate, or the checkout holds no
\* recognized test file, it returns None and run_on_bug takes the "continue"
\* branch for that candidate.
C11_NoHostWithoutSharedToken ==
    \A i \in 1..Len(h_results) :
        LET r == h_results[i]
        IN  /\ r.host_result # None => r.host_result[2][1] > 0
            /\ ~SharesToken(h_code, h_files) =>
                   r.host_result = None /\ r.branch = "continue"

C11_Witness ==
    /\ _tokenize(h_code) # <<>>
    /\ Scorable(h_files) # {}
    /\ ~SharesToken(h_code, h_files)
    /\ h_results # <<>>
    /\ h_results[1].host_result = None
    /\ h_results[1].branch = "continue"

\* C12: for every candidate token list (a token may occur more than once) and
\* host file, the score is between 0 and 1, and it is 1 whenever every
\* candidate token occurs among the host's tokens.
C12_ScoreIsOneWhenAllTokensOccur ==
    h_results # <<>> /\ _tokenize(h_code) # <<>> =>
        \A path \in Scorable(h_files) :
            LET score == ScoreOf(h_code, h_files, path)
            IN  /\ 0 <= score[1] /\ score[1] <= score[2]
                /\ SetOf(_tokenize(h_code)) \subseteq SetOf(_tokenize(h_files[path]))
                       => score[1] = score[2]

\* the characters of the paths in the order of their code points
CodePoints ==
    <<".", "/">> \o <<"0", "1", "2", "3", "4", "5", "6", "7", "8", "9">>
        \o UpperCase \o <<"_">> \o LowerCase

Ord(c) == CHOOSE i \in 1..Len(CodePoints) : CodePoints[i] = c

\* p comes before q in the lexical order of strings
LexLess(p, q) ==
    \E k \in 1..(Len(p) + 1) :
        /\ k <= Len(q)
        /\ \A j \in 1..(k - 1) : p[j] = q[j]
        /\ k = Len(p) + 1 \/ Ord(p[k]) < Ord(q[k])

\* p is preferred to q on a tie: the shorter path, then the lexically smaller
Preferred(p, q) == Len(p) < Len(q) \/ (Len(p) = Len(q) /\ LexLess(p, q))

\* C13: find_host_class returns a test file of maximal score among the
\* recognized test files; among files of equal score it returns the one with
\* the shortest path, then the lexically smallest.
C13_MaximalScoreShortestPathFirst ==
    \A i \in 1..Len(h_results) :
        LET r == h_results[i].host_result
        IN  r # None =>
                \A path \in Scorable(h_files) :
                    LET score == ScoreOf(h_code, h_files, path)
                    IN  /\ ~ScoreLess(r[2], score)
                        /\ score[1] * r[2][2] = r[2][1] * score[2] =>
                               ~Preferred(path, r[1])

\* C14: two runs of find_host_class on the same candidate and the same
\* snapshot return the same (host file, score), whatever the order in which
\* the test files are enumerated.
C14_SameResultOnEveryRun ==
    \A i, j \in 1..Len(h_results) :
        h_results[i].host_result = h_results[j].host_result

(***************************************************************************)
(* Extraction of the test method                                           *)
(***************************************************************************)
\* C15: extraction is idempotent: applying _extract_test_method to a unit u
\* it returned gives u again, also when u holds a further test-method
\* signature inside its body.
C15_ExtractionIdempotent ==
    e_pc = "again" => e_again = e_unit

\* the depth of braces after the first k characters of s
BraceDepth(s, k) == Count(SubSeq(s, 1, k), "{") - Count(SubSeq(s, 1, k), "}")

\* the braces of s are properly nested and balanced, and the depth returns to
\* zero at the last character and not before
ProperlyNested(s) ==
    /\ \A k \in 1..Len(s) : BraceDepth(s, k) >= 0
    /\ BraceDepth(s, Len(s)) = 0
    /\ s[Len(s)] = "}"
    /\ \A k \in 1..(Len(s) - 1) : s[k] = "}" => BraceDepth(s, k) > 0

\* C16: a returned unit begins at a test-method signature, its braces are
\* properly nested and balanced, it ends at the brace that returns the depth
\* to zero and its body has at least the minimum length; the result is None
\* when the output has no signature.
C16_UnitIsWellFormedMethod ==
    e_pc # "raw" =>
        /\ e_unit # None =>
               /\ SignatureAt(e_unit, 1)
               /\ ProperlyNested(e_unit)
               /\ Len(Strip(BodyMatch(e_unit))) >= MinBodyLen
        /\ SignatureSearch(e_output) = 0 => e_unit = None

(***************************************************************************)
(* Injection into the host class                                           *)
(***************************************************************************)
\* the text of the host from the line of its class declaration on
ClassText(content) ==
    LET lines == SplitLines(content)
    IN  JoinLines(SubSeq(lines, ClassStart(lines) + 1, Len(lines)))

\* the host has a class declaration and a closing brace that balances the class
WellFormedHost(content) ==
    /\ \E k \in 1..Len(SplitLines(content)) : HasClassDeclaration(SplitLines(content)[k])
    /\ LET text == ClassText(content)
       IN  \E k \in 1..Len(text) :
               /\ text[k] = "}"
               /\ BraceDepth(text, k) = 0
               /\ \A j \in 1..k : BraceDepth(text, j) >= 0

\* C17: when the host content has no class declaration, or no closing brace
\* that balances the class, inject_test aborts: success is false, error holds
\* the reason, modified_class_path is None, no file is written and the host
\* file is unchanged.
C17_MalformedHostAborts ==
    \A n \in 1..Len(i_log) :
        LET call == i_log[n]
        IN  ~WellFormedHost(call.before[call.host_class_path]) =>
                /\ call.result.success = FALSE
                /\ call.result.error # None
                /\ call.result.modified_class_path = None
                /\ call.after = call.before

\* C18: inject_test never modifies the original host file: a successful call
\* writes its result to a path other than the host path and changes no other
\* file, and two candidates with different ids injected into the same host
\* get different result paths.
C18_HostNeverOverwritten ==
    /\ \A n \in 1..Len(i_log) :
           LET call == i_log[n]
           IN  /\ call.after[call.host_class_path] = call.before[call.host_class_path]
               /\ call.result.success =>
                      /\ call.result.modified_class_path # call.host_class_path
                      /\ call.result.modified_class_path \in DOMAIN call.after
                      /\ \A path \in DOMAIN call.before :
                             path # call.result.modified_class_path =>
                                 call.after[path] = call.before[path]
    /\ \A m, n \in 1..Len(i_log) :
           /\ i_log[m].result.success /\ i_log[n].result.success
           /\ i_log[m].host_class_path = i_log[n].host_class_path
           /\ i_log[m].test_id # i_log[n].test_id
           => i_log[m].result.modified_class_path # i_log[n].result.modified_class_path

C18_Witness ==
    /\ Len(i_log) >= 2
    /\ i_log[1].result.success /\ i_log[2].result.success
    /\ i_log[1].host_class_path = i_log[2].host_class_path
    /\ i_log[1].test_id # i_log[2].test_id
    /\ i_log[1].result.modified_class_path \in DOMAIN i_fs
    /\ i_log[2].result.modified_class_path \in DOMAIN i_fs

(***************************************************************************)
(* Recovery from failures                                                  *)
(***************************************************************************)
ProcessBugsEnded == b_pc \in {"returned", "raised"}

ToolUnavailable(run) == run # <<>> /\ run[1] = "oserror"

\* C20: when the build tool cannot be started or the disk is full, the run
\* ends at once with the exception propagating to the caller; the failure is
\* not turned into a per-candidate or per-bug error record after which the
\* run goes on.
C20_ToolUnavailabilityIsFatal ==
    /\ \A k \in 1..Len(errors) : errors[k] = "oserror" => pc = "raised"
    /\ \A n \in 1..Len(tool_log) :
           ToolUnavailable(tool_log[n].buggy) \/ ToolUnavailable(tool_log[n].fixed)
               => pc = "raised"
    /\ \A k \in 1..Len(b_log) :
           b_log[k].save = "write_failed" \/ b_log[k].handler_save = "write_failed"
               => b_pc = "raised" /\ k = Len(b_log)

(***************************************************************************)
(* Checkout directories                                                    *)
(***************************************************************************)
\* C21: every checkout directory created while processing a bug (the buggy
\* checkout, the fixed checkout) has been removed by the time run_on_bug
\* ends, on every exit path.
C21_CheckoutsRemovedAtEnd ==
    pc = "done" => ~buggy_dir.exists /\ ~fixed_dir.exists

\* C22: process_bugs called without resume_from never runs the pipeline on a
\* bug whose id is in the persisted progress set, persists the result set
\* after every bug it processed, keeps every persisted result persisted over
\* interruptions and restarts, and returns with every input bug in the
\* results.
C22_PersistedResultsSurviveRestart ==
    b_resume_from = None =>
        /\ \A k \in 1..Len(b_history) :
               /\ b_history[k].bug_id \notin b_history[k].persisted_before
               /\ b_history[k].continued => b_history[k].saved
               /\ b_history[k].saved => b_history[k].bug_id \in Persisted(b_file)
        /\ b_pc = "returned" =>
               \A n \in 1..Len(b_bugs) : b_bugs[n] \in DOMAIN b_results

(***************************************************************************)
(* execute_test as a state machine.                                        *)
(***************************************************************************)
\* what execute_test did and returned: the pairs <<commands, record>> of
\* the runs made so far
ExecuteTestRuns ==
    { <<tool_log[n].buggy, candidates[n].execution.buggy_result>> :
        n \in {m \in Executed : tool_log[m].buggy # <<>>} }
    \cup { <<tool_log[n].fixed, candidates[n].execution.fixed_result>> :
        n \in {m \in Executed : tool_log[m].fixed # <<>>} }
    \cup (IF pc = "execute_fixed" THEN {<<tool_log[idx + 1].buggy, cur_buggy>>} ELSE {})

\* C23: the test command is started only after the compile command returned
\* 0; a compile failure yields compiled = false, error type CompilationError
\* and no test run; in every returned record passed and failed are never
\* both true, and passed or failed implies compiled.
C23_ExecuteTestStateMachine ==
    \A run \in ExecuteTestRuns :
        LET commands == run[1]
            result == run[2]
        IN  /\ commands[2] # "not_run" => commands[1] = "rc0"
            /\ commands[1] = "rc1" =>
                   /\ ~result.compiled
                   /\ result.error_type = "CompilationError"
                   /\ commands[2] = "not_run"
            /\ ~(result.passed /\ result.failed)
            /\ (result.passed \/ result.failed) => result.compiled

C23_Witness ==
    /\ pc = "done"
    /\ \E run \in ExecuteTestRuns : run[1] = <<"rc1", "not_run">>
    /\ \E run \in ExecuteTestRuns : run[1] = <<"rc0", "returned">> /\ run[2].failed
    /\ \E run \in ExecuteTestRuns : run[1] = <<"rc0", "returned">> /\ run[2].passed

\* the host has a class declaration and, from it on, balanced braces
BalancedHost(content) ==
    /\ \E k \in 1..Len(SplitLines(content)) : HasClassDeclaration(SplitLines(content)[k])
    /\ LET text == ClassText(content)
       IN  /\ Count(text, "{") > 0
           /\ \A k \in 1..Len(text) : BraceDepth(text, k) >= 0
           /\ BraceDepth(text, Len(text)) = 0

\* the opening brace of the class and the closing brace that matches it
ClassOpen(text) == Min({k \in 1..Len(text) : text[k] = "{"})
ClassClose(text) ==
    Min({k \in 1..Len(text) : k > ClassOpen(text) /\ text[k] = "}" /\ BraceDepth(text, k) = 0})

\* the method stands in the class body of content, with nothing but white
\* space between its end and the closing brace of the class
BeforeClosingBrace(content, method) ==
    LET text == ClassText(content)
    IN  /\ BalancedHost(content)
        /\ \E p \in 1..Len(text) :
               /\ LiteralAt(text, p, method, FALSE)
               /\ ClassOpen(text) < p
               /\ p + Len(method) - 1 < ClassClose(text)
               /\ \A j \in (p + Len(method))..(ClassClose(text) - 1) : IsSpace(text[j])

\* C24: for every host with a class declaration and balanced braces, the
\* opening brace standing on a later line included, the injection succeeds
\* and the method stands immediately before the closing brace that matches
\* the opening brace of the class, inside the class body.
C24_MethodInsideClassBody ==
    \A n \in 1..Len(i_log) :
        LET call == i_log[n]
        IN  BalancedHost(call.before[call.host_class_path]) =>
                /\ call.result.success
                /\ BeforeClosingBrace(call.after[call.result.modified_class_path],
                                      IndentedMethod(InjectCode))

\* C25: the import list _resolve_dependencies computes, reported as
\* added_imports, never holds an import statement that is a line of the
\* host already.
C25_NoImportAddedTwice ==
    \A n \in 1..Len(i_log) :
        LET call == i_log[n]
            host_lines == SplitLines(call.before[call.host_class_path])
        IN  \A k \in 1..Len(call.result.added_imports) :
                \A l \in 1..Len(host_lines) :
                    Strip(host_lines[l]) # call.result.added_imports[k]

(***************************************************************************)
(* Ordering of the failure groups                                          *)
(***************************************************************************)
\* no candidate repeats the normalized body of another one
DuplicateFree(tests) ==
    \A i, j \in 1..Len(tests) :
        NormalizedCode(tests[i].test_code) = NormalizedCode(tests[j].test_code) => i = j

\* the candidates that share the failure signature of candidate i
GroupOf(tests, i) == {j \in 1..Len(tests) : ClusterKey(tests[j]) = ClusterKey(tests[i])}

\* the bug-report match score of a group: the keywords of the report that
\* occur among the keywords of the code and error message of its candidates
GroupScore(tests, report_text, group) ==
    Cardinality(Words(Lower(report_text)) \cap
                UNION {Words(Lower(tests[j].test_code \o tests[j].error_message)) :
                       j \in group})

\* the rank of the first candidate of a group
FirstRank(ranked, tests, group) ==
    Min({k \in 1..Len(ranked) : \E j \in group : ranked[k] = tests[j]})

\* C26: in a ranking of candidates without duplicates, a group whose
\* bug-report match score is higher precedes every group whose score is
\* lower, whatever the sizes of the two groups.
C26_HigherScoreGroupFirst ==
    (rk_pc = "done" /\ DuplicateFree(rk_fib_tests) /\ rk_ranking # <<>>) =>
        \A i, j \in 1..Len(rk_fib_tests) :
            GroupScore(rk_fib_tests, rk_description, GroupOf(rk_fib_tests, i))
                > GroupScore(rk_fib_tests, rk_description, GroupOf(rk_fib_tests, j))
            => FirstRank(rk_ranking, rk_fib_tests, GroupOf(rk_fib_tests, i))
                   < FirstRank(rk_ranking, rk_fib_tests, GroupOf(rk_fib_tests, j))

\* the candidates left once syntactic duplicates are dropped: the first of
\* every normalized body
FirstOfBody(tests) ==
    {i \in 1..Len(tests) :
        \A j \in 1..(i - 1) :
            NormalizedCode(tests[j].test_code) # NormalizedCode(tests[i].test_code)}

\* the size of the largest failure group formed of the candidates kept
LargestGroupOf(tests, kept) ==
    IF kept = {} THEN 0
    ELSE Max({Cardinality(GroupOf(tests, i) \cap kept) : i \in kept})

\* C27: the agreement threshold is compared with the sizes of the groups
\* formed after syntactic duplicates were dropped: the ranking is empty
\* whenever the largest of these groups is no larger than the threshold, so
\* candidates that are all duplicates of one another, a group of size 1,
\* give an empty ranking at threshold 1.
C27_ThresholdAfterDuplicatesDropped ==
    (rk_pc = "done" /\ LargestGroupOf(rk_fib_tests, FirstOfBody(rk_fib_tests)) <= rk_threshold)
        => rk_ranking = <<>>

\* the ordered groups select_and_rank interleaves
OrderedGroups(tests, report_text) ==
    LET clusters == _cluster_by_failure_output(tests)
        unique_tests == _remove_syntactic_duplicates(tests)
        report_matches == _match_with_report(unique_tests, report_text)
        token_counts == TokenCounts(unique_tests)
        sorted_clusters == SortClusters(clusters, report_matches, token_counts)
    IN  [c \in 1..Len(sorted_clusters) |->
           SortWithinCluster(sorted_clusters[c], report_matches, token_counts).tests]

\* the rank of a candidate, 0 when it is not ranked
RankOf(ranked, t) ==
    IF \E k \in 1..Len(ranked) : ranked[k] = t
    THEN Min({k \in 1..Len(ranked) : ranked[k] = t}) ELSE 0

\* C29: a ranking that is not empty is the round-robin interleaving of the
\* ordered groups: the members at one index stand in group order, and the
\* member at index k of any group never precedes the member at index k-1 of
\* any group.
C29_RoundRobinInterleaving ==
    (rk_pc = "done" /\ rk_ranking # <<>>) =>
        LET groups == OrderedGroups(rk_fib_tests, rk_description)
            rank(g, k) == RankOf(rk_ranking, groups[g][k])
        IN  /\ \A g \in 1..Len(groups) : \A k \in 1..Len(groups[g]) : rank(g, k) > 0
            /\ \A g, h \in 1..Len(groups) : \A k \in 1..Len(groups[g]) :
                   /\ (g < h /\ k <= Len(groups[h])) => rank(g, k) < rank(h, k)
                   /\ (k > 1 /\ k - 1 <= Len(groups[h])) => rank(g, k) > rank(h, k - 1)

C29_Witness ==
    /\ rk_pc = "done"
    /\ Len(rk_ranking) = 3
    /\ LET groups == OrderedGroups(rk_fib_tests, rk_description)
       IN  /\ Len(groups) = 2
           /\ Len(groups[1]) = 2
           /\ Len(groups[2]) = 1
           /\ rk_ranking = <<groups[1][1], groups[2][1], groups[1][2]>>

(***************************************************************************)
(* Failures at the revision level                                          *)
(***************************************************************************)
\* the checkout or the compile command of the revision returned an exit
\* code other than 0 for candidate n
CheckoutFailedOn(n, revision) ==
    LET k == IF revision = "buggy" THEN 1 ELSE 2
    IN  Len(tool_log[n].checkouts) >= k /\ tool_log[n].checkouts[k] = "rc1"
CompileFailedOn(n, revision) ==
    tool_log[n][revision] # <<>> /\ tool_log[n][revision][1] = "rc1"
FailedOn(n, revision) == CheckoutFailedOn(n, revision) \/ CompileFailedOn(n, revision)

\* C28: a checkout or compile failure on one revision is recorded as the
\* compile-error classification of that revision and the loop goes on: a
\* failure on the buggy revision gives COMPILATION_ERROR_BUGGY, a failure on
\* the fixed revision after the buggy one was checked out, and compiled when
\* it came to that, gives COMPILATION_ERROR_FIXED.
C28_RevisionFailureClassified ==
    \A n \in 1..idx :
        /\ FailedOn(n, "buggy") =>
               /\ n \in Executed
               /\ candidates[n].classification = "COMPILATION_ERROR_BUGGY"
        /\ (/\ FailedOn(n, "fixed")
            /\ tool_log[n].checkouts[1] = "rc0"
            /\ tool_log[n].buggy # <<>> => tool_log[n].buggy[1] = "rc0") =>
               /\ n \in Executed
               /\ candidates[n].classification = "COMPILATION_ERROR_FIXED"

\* the records execute_test has returned
ReturnedRecords ==
    (IF cpc \in {"execute_fixed", "done"} THEN {buggy_result} ELSE {})
    \cup (IF cpc = "done" THEN {fixed_result} ELSE {})

\* C30: whenever the output of the test command holds a failure indicator,
\* the record execute_test returns has failed = true and passed = false,
\* whatever the exit code of the command.
C30_FailureIndicatorMeansFailed ==
    \A result \in ReturnedRecords :
        result.output.indicator => result.failed /\ ~result.passed

====
